---- MODULE Spec2Model ----
(***************************************************************************)
(* TiltSync: the hooks and services of the alignment pipeline as state     *)
(* machines.  Each hook is one record-valued variable whose fields carry   *)
(* the names of the hook's props, refs and state; one action per React     *)
(* commit (render + effect cleanup + effect), timer callback or promise    *)
(* completion.                                                             *)
(*                                                                         *)
(* A nullable value (T | null) is a set with at most one element:          *)
(* Null is {} and Some(x) is {x}.                                          *)
(***************************************************************************)
EXTENDS Integers, Sequences, FiniteSets, TLC

VARIABLES haptic, hapticObs, tiltCache, winterTiltCache, now, api, pvLive,
          optAngle, sensor, geo, settings, align, angleOps, angleTable, sweep, theme

vars == <<haptic, hapticObs, tiltCache, winterTiltCache, now, api, pvLive,
          optAngle, sensor, geo, settings, align, angleOps, angleTable, sweep, theme>>

\* what the actions of one hook or service leave alone
notHaptic == <<tiltCache, winterTiltCache, now, api, pvLive, optAngle, sensor, geo, settings, align, angleOps, angleTable, sweep, theme>>
notApi == <<haptic, hapticObs, pvLive, optAngle, sensor, geo, settings, align, angleOps, angleTable, sweep, theme>>
notPvLive == <<haptic, hapticObs, api, optAngle, sensor, geo, settings, align, angleOps, angleTable, sweep, theme>>
notOptAngle == <<haptic, hapticObs, api, pvLive, sensor, geo, settings, align, angleOps, angleTable, sweep, theme>>
notSensor ==
  <<haptic, hapticObs, tiltCache, winterTiltCache, now, api, pvLive, optAngle,
    geo, settings, align, angleOps, angleTable, sweep, theme>>
notGeo ==
  <<haptic, hapticObs, tiltCache, winterTiltCache, now, api, pvLive, optAngle,
    sensor, settings, align, angleOps, angleTable, sweep, theme>>
notSettings ==
  <<haptic, hapticObs, tiltCache, winterTiltCache, now, api, pvLive, optAngle,
    sensor, geo, align, angleOps, angleTable, sweep, theme>>
notAlign ==
  <<haptic, hapticObs, tiltCache, winterTiltCache, now, api, pvLive, optAngle,
    sensor, geo, settings, angleOps, angleTable, sweep, theme>>
notAngleOps ==
  <<haptic, hapticObs, tiltCache, winterTiltCache, now, api, pvLive, optAngle,
    sensor, geo, settings, align, angleTable, sweep, theme>>

notAngleTable ==
  <<haptic, hapticObs, tiltCache, winterTiltCache, now, api, pvLive, optAngle,
    sensor, geo, settings, align, angleOps, sweep, theme>>

notSweep ==
  <<haptic, hapticObs, tiltCache, winterTiltCache, now, api, pvLive, optAngle,
    sensor, geo, settings, align, angleOps, angleTable, theme>>

notTheme ==
  <<haptic, hapticObs, tiltCache, winterTiltCache, now, api, pvLive, optAngle,
    sensor, geo, settings, align, angleOps, angleTable, sweep>>

Null == {}
Some(x) == {x}
Val(o) == CHOOSE x \in o : TRUE

Abs(n) == IF n < 0 THEN -n ELSE n

(***************************************************************************)
(* useHapticFeedback (src/src/hooks/useHapticFeedback.ts)                  *)
(* Deviations are in half-degrees, so the default lock threshold of 0.5    *)
(* degree is 1 and HAPTIC_THRESHOLDS 2 / 5 / 10 degrees are 4 / 10 / 20.   *)
(***************************************************************************)
MaxRenders == 4

lockThreshold == 1

HAPTIC_THRESHOLDS == [VERY_CLOSE |-> 4, CLOSE |-> 10, APPROACHING |-> 20]

HAPTIC_INTERVALS == [LOCKED |-> 0, VERY_CLOSE |-> 100, CLOSE |-> 250, APPROACHING |-> 500]

HapticIntensity == {"none", "approaching", "close", "very_close", "locked"}

PeriodicBands == {"approaching", "close", "very_close"}

\* deviation samples (half-degrees): two per band, the band edges, one negative
Deviations == {-3, 0, 1, 2, 4, 5, 10, 11, 20, 21}

getIntensity(dev) ==
  LET absDev == Abs(dev) IN
  IF absDev <= lockThreshold THEN "locked"
  ELSE IF absDev <= HAPTIC_THRESHOLDS.VERY_CLOSE THEN "very_close"
  ELSE IF absDev <= HAPTIC_THRESHOLDS.CLOSE THEN "close"
  ELSE IF absDev <= HAPTIC_THRESHOLDS.APPROACHING THEN "approaching"
  ELSE "none"

\* Haptics.notificationAsync / impactAsync is called for every intensity but none
triggerHaptic(h, intensity) ==
  IF intensity \in HapticIntensity \ {"none"}
  THEN [h EXCEPT !.fired = Append(@, intensity)]
  ELSE h

\* the expo-haptics call of each intensity (lines 46-61)
hapticStyle(intensity) ==
  CASE intensity = "locked" -> "notification-success"
    [] intensity = "very_close" -> "impact-heavy"
    [] intensity = "close" -> "impact-medium"
    [] intensity = "approaching" -> "impact-light"
    [] OTHER -> "none"

\* mutant: the handle is forgotten without clearInterval
clearIntervalRefForgets(h) == [h EXCEPT !.intervalRef = Null]

\* if (intervalRef.current) { clearInterval(intervalRef.current); intervalRef.current = null; }
clearIntervalRef(h) ==
  IF h.intervalRef # Null
  THEN [h EXCEPT !.timers = {t \in @ : t.id \notin h.intervalRef},
                 !.intervalRef = Null]
  ELSE h

\* a handle no active timer has
FreshTimerId(h) ==
  CHOOSE i \in 1..(Cardinality(h.timers) + 1) : \A t \in h.timers : t.id # i

\* intervalRef.current = setInterval(() => triggerHaptic(intensity), intervalMs)
setIntervalRef(h, intensity, intervalMs) ==
  LET id == FreshTimerId(h) IN
  [h EXCEPT !.timers = @ \cup {[id |-> id, intensity |-> intensity, ms |-> intervalMs]},
            !.intervalRef = Some(id)]

\* mutant: locked is given a period like the bands around it
intervalMsOfLocked(intensity) ==
  IF intensity \in {"very_close", "locked"} THEN HAPTIC_INTERVALS.VERY_CLOSE
  ELSE IF intensity = "close" THEN HAPTIC_INTERVALS.CLOSE
  ELSE IF intensity = "approaching" THEN HAPTIC_INTERVALS.APPROACHING
  ELSE 0

intervalMsOf(intensity) ==
  IF intensity = "very_close" THEN HAPTIC_INTERVALS.VERY_CLOSE
  ELSE IF intensity = "close" THEN HAPTIC_INTERVALS.CLOSE
  ELSE IF intensity = "approaching" THEN HAPTIC_INTERVALS.APPROACHING
  ELSE 0

\* mutant: the locked flag is never reset
resetLockedNever(h, intensity) == h

\* lines 91-94: reset the locked flag when moving away
resetLocked(h, intensity) ==
  IF intensity # "locked" THEN [h EXCEPT !.isLockedRef = FALSE] ELSE h

\* lines 96-124: only update the interval if the intensity changed
updateInterval(h, intensity) ==
  IF intensity # h.lastIntensityRef
  THEN LET h1 == clearIntervalRef([h EXCEPT !.lastIntensityRef = intensity])
           intervalMs == intervalMsOf(intensity)
       IN  IF intervalMs # 0
           THEN setIntervalRef(triggerHaptic(h1, intensity), intensity, intervalMs)
           ELSE h1
  ELSE h

\* lines 78-89: entering locked fires the confirmation, clears the interval and
\* returns without a cleanup function
lockEntry(h) ==
  [clearIntervalRef(triggerHaptic([h EXCEPT !.isLockedRef = TRUE], "locked"))
     EXCEPT !.cleanup = FALSE]

\* the body of the effect, lines 67-131; cleanup is TRUE when the run returned
\* the cleanup function of lines 126-131
hapticEffect(h) ==
  IF ~h.enabled
  THEN [clearIntervalRef(h) EXCEPT !.cleanup = FALSE]
  ELSE LET intensity == getIntensity(h.deviation) IN
       IF intensity = "locked" /\ ~h.isLockedRef
       THEN lockEntry(h)
       ELSE [updateInterval(resetLocked(h, intensity), intensity) EXCEPT !.cleanup = TRUE]

\* mutant: the effect returns a cleanup that leaves the interval running
hapticCleanupNoClear(h) == [h EXCEPT !.cleanup = FALSE]

\* React runs the cleanup the previous run returned, if it returned one
hapticCleanup(h) ==
  IF h.cleanup THEN [clearIntervalRef(h) EXCEPT !.cleanup = FALSE] ELSE h

\* the hook instance created by the first render, before its effect has run
HapticFresh(en, dev) ==
  [mounted |-> TRUE, enabled |-> en, deviation |-> dev,
   intervalRef |-> Null, lastIntensityRef |-> "none", isLockedRef |-> FALSE,
   cleanup |-> FALSE, timers |-> {}, fired |-> <<>>]

(***************************************************************************)
(* hapticObs observes the hook from outside: the classified intensity of   *)
(* the previous sample processed while enabled, the number of entries into *)
(* locked among the processed samples, the number of confirmation pulses   *)
(* fired, the number of commits, and the timers running before the commit. *)
(***************************************************************************)
CountOf(seq, x) == Cardinality({i \in DOMAIN seq : seq[i] = x})

ObsFresh ==
  [prev |-> "start", lockEntries |-> 0, lockPulses |-> 0, renders |-> 0,
   timersBefore |-> {}, event |-> "init"]

Observe(obs, before, after, event) ==
  LET processed == after.mounted /\ after.enabled /\ event \in {"mount", "render"}
      intensity == getIntensity(after.deviation)
  IN  [prev |-> IF processed THEN intensity ELSE obs.prev,
       lockEntries |-> obs.lockEntries +
          (IF processed /\ intensity = "locked" /\ obs.prev # "locked" THEN 1 ELSE 0),
       lockPulses |-> obs.lockPulses + CountOf(after.fired, "locked"),
       renders |-> obs.renders + (IF event \in {"mount", "render"} THEN 1 ELSE 0),
       timersBefore |-> before.timers,
       event |-> event]

\* a render with changed props: the dependency array [enabled, deviation, ...]
\* differs, so the previous cleanup runs and then the effect
HapticRender(en, dev) ==
  /\ haptic.mounted
  /\ hapticObs.renders < MaxRenders
  /\ <<en, dev>> # <<haptic.enabled, haptic.deviation>>
  /\ LET h0 == [haptic EXCEPT !.fired = <<>>]
         h1 == hapticCleanup(h0)
         h2 == hapticEffect([h1 EXCEPT !.enabled = en, !.deviation = dev])
     IN  /\ haptic' = h2
         /\ hapticObs' = Observe(hapticObs, haptic, h2, "render")
  /\ UNCHANGED notHaptic

\* an interval timer of the runtime fires its callback
HapticTimerFire ==
  /\ \E t \in haptic.timers :
       LET h2 == triggerHaptic([haptic EXCEPT !.fired = <<>>], t.intensity) IN
       /\ haptic' = h2
       /\ hapticObs' = Observe(hapticObs, haptic, h2, "timer")
  /\ UNCHANGED notHaptic

\* the component unmounts: React runs the last cleanup
HapticUnmount ==
  /\ haptic.mounted
  /\ LET h2 == [hapticCleanup([haptic EXCEPT !.fired = <<>>]) EXCEPT !.mounted = FALSE] IN
     /\ haptic' = h2
     /\ hapticObs' = Observe(hapticObs, haptic, h2, "unmount")
  /\ UNCHANGED notHaptic

\* the screen is shown again: a new hook instance
HapticMount(en, dev) ==
  /\ ~haptic.mounted
  /\ hapticObs.renders < MaxRenders
  /\ LET h0 == [HapticFresh(en, dev) EXCEPT !.timers = haptic.timers]
         h2 == hapticEffect(h0)
     IN  /\ haptic' = h2
         /\ hapticObs' = Observe([ObsFresh EXCEPT !.renders = hapticObs.renders],
                                 haptic, h2, "mount")
  /\ UNCHANGED notHaptic

HapticNext ==
  \/ \E en \in BOOLEAN, dev \in Deviations : HapticRender(en, dev)
  \/ HapticTimerFire
  \/ HapticUnmount
  \/ \E en \in BOOLEAN, dev \in Deviations : HapticMount(en, dev)

(***************************************************************************)
(* PVWatts service (pvwattsApi, in src/src/utils/constants.ts 58-380)      *)
(* Angles and coordinates are integers in units of 1e-5 degree, times are  *)
(* hours.  A sweep's network outcome is one record per tested angle.       *)
(***************************************************************************)
MaxCalls == 2
MaxNow == 24

CACHE_DURATION == 24

Deg(n) == n * 100000

ClockSteps == {12}

Variants == {"optimal", "winter"}

\* x.toFixed(2): the sign and the hundredths of |x|, rounded half up
toFixed2(x) == <<x < 0, (Abs(x) + 500) \div 1000>>

getCacheKey(lat, lon) == <<toFixed2(lat), toFixed2(lon)>>

CacheOf(variant) == IF variant = "winter" THEN winterTiltCache ELSE tiltCache

\* the TTL test with the boundary included: the mutant of cacheHit
cacheHitInclusive(cache, key, t) ==
  key \in DOMAIN cache /\ t - cache[key].timestamp <= CACHE_DURATION

\* cached && Date.now() - cached.timestamp < CACHE_DURATION
cacheHit(cache, key, t) ==
  key \in DOMAIN cache /\ t - cache[key].timestamp < CACHE_DURATION

cacheSet(cache, key, entry) ==
  [k \in DOMAIN cache \cup {key} |-> IF k = key THEN entry ELSE cache[k]]

\* getCachedTilt / getCachedWinterTilt
getCached(cache, lat, lon, t) ==
  IF cacheHit(cache, getCacheKey(lat, lon), t)
  THEN Some(cache[getCacheKey(lat, lon)].tilt)
  ELSE Null

InTiltRange(a) == a >= 0 /\ a <= Deg(90)

\* [base-10, base-5, base, base+5, base+10].filter(a => a >= 0 && a <= 90)
optimalTestAngles(latitude) ==
  LET baseAngle == Abs(latitude) IN
  SelectSeq(<<baseAngle - Deg(10), baseAngle - Deg(5), baseAngle,
              baseAngle + Deg(5), baseAngle + Deg(10)>>, InTiltRange)

\* for (offset = 0; offset <= 25; offset += 5) if (angle >= 0 && angle <= 90) push
winterTestAngles(latitude) ==
  LET baseAngle == Abs(latitude) IN
  SelectSeq([i \in 1..6 |-> baseAngle + Deg(5 * (i - 1))], InTiltRange)

testAngles(variant, latitude) ==
  IF variant = "winter" THEN winterTestAngles(latitude) ELSE optimalTestAngles(latitude)

\* what one request of a sweep comes back with: a failure (network error,
\* non-2xx, malformed payload) or the yields of the response
Failed == [ok |-> FALSE, ac_annual |-> 0, june |-> 0, dec |-> 0]

OptimalOutcomes == {Failed} \cup {[ok |-> TRUE, ac_annual |-> y, june |-> 0, dec |-> 0] : y \in {1, 2}}

WinterOutcomes ==
  {Failed} \cup {[ok |-> TRUE, ac_annual |-> 0, june |-> 2, dec |-> 1],
                 [ok |-> TRUE, ac_annual |-> 0, june |-> 1, dec |-> 2]}

SweepOutcomes(variant, latitude) ==
  [DOMAIN testAngles(variant, latitude) ->
     IF variant = "winter" THEN WinterOutcomes ELSE OptimalOutcomes]

\* lines 183-197: a failed request is caught and scored zero
optimalResults(angles, out) ==
  [i \in DOMAIN angles |->
     [tilt |-> angles[i], production |-> IF out[i].ok THEN out[i].ac_annual ELSE 0]]

\* mutant: the comparison of the loop reversed
RECURSIVE findBestReversed(_, _, _)
findBestReversed(results, i, best) ==
  IF i > Len(results) THEN best
  ELSE findBestReversed(results, i + 1,
         IF results[i].production < best.production
         THEN [tilt |-> results[i].tilt, production |-> results[i].production]
         ELSE best)

\* lines 199-205: the first result with the strictly highest production
RECURSIVE findBest(_, _, _)
findBest(results, i, best) ==
  IF i > Len(results) THEN best
  ELSE findBest(results, i + 1,
         IF results[i].production > best.production
         THEN [tilt |-> results[i].tilt, production |-> results[i].production]
         ELSE best)

\* lines 265-282
winterResults(angles, out) ==
  [i \in DOMAIN angles |->
     [tilt |-> angles[i],
      juneProduction |-> IF out[i].ok THEN out[i].june ELSE 0,
      decProduction |-> IF out[i].ok THEN out[i].dec ELSE 0]]

\* results.sort((a, b) => b.tilt - a.tilt): insertion into a descending sequence
RECURSIVE insertDesc(_, _)
insertDesc(sorted, r) ==
  IF sorted = <<>> THEN <<r>>
  ELSE IF Head(sorted).tilt - r.tilt >= 0
       THEN <<Head(sorted)>> \o insertDesc(Tail(sorted), r)
       ELSE <<r>> \o sorted

RECURSIVE sortDesc(_)
sortDesc(results) ==
  IF results = <<>> THEN <<>>
  ELSE insertDesc(sortDesc(SubSeq(results, 1, Len(results) - 1)), results[Len(results)])

\* lines 288-297: the first (steepest) result with June >= December > 0,
\* else the last (lowest) one
RECURSIVE firstValid(_, _)
firstValid(sorted, i) ==
  IF i > Len(sorted) THEN sorted[Len(sorted)]
  ELSE IF sorted[i].juneProduction >= sorted[i].decProduction /\ sorted[i].decProduction > 0
       THEN sorted[i]
       ELSE firstValid(sorted, i + 1)

\* lines 215-225 and 308-319: the formula fallbacks of the catch blocks
optimalFallbackTilt(latitude) == (Abs(latitude) * 87) \div 100

winterFallbackTilt(latitude) ==
  IF Abs(latitude) + Deg(15) < Deg(90) THEN Abs(latitude) + Deg(15) ELSE Deg(90)

fallbackTilt(variant, latitude) ==
  IF variant = "winter" THEN winterFallbackTilt(latitude) ELSE optimalFallbackTilt(latitude)

\* the try block throws only when the winter sweep has no result to default to
\* (results[results.length - 1] is undefined); no request failure reaches the
\* catch, each is caught per request
sweepThrows(variant, latitude) ==
  variant = "winter" /\ testAngles(variant, latitude) = <<>>

\* the tilt the try block settles on
sweepTilt(variant, latitude, out) ==
  IF variant = "winter"
  THEN firstValid(sortDesc(winterResults(winterTestAngles(latitude), out)), 1).tilt
  ELSE findBest(optimalResults(optimalTestAngles(latitude), out), 1,
                [tilt |-> Abs(latitude), production |-> 0]).tilt

\* lines 207-208 and 299-300: the result of the try block is cached, whatever
\* the requests returned
sweepCaches(variant, latitude, out) == ~sweepThrows(variant, latitude)

\* the value the promise resolves with after the sweep
sweepResult(variant, latitude, out) ==
  IF sweepCaches(variant, latitude, out)
  THEN [tilt |-> sweepTilt(variant, latitude, out), confidence |-> "live"]
  ELSE [tilt |-> fallbackTilt(variant, latitude), confidence |-> "fallback"]

\* the cache after the sweep of a call has completed at time t
cacheAfterSweep(cache, variant, latitude, longitude, out, t) ==
  IF sweepCaches(variant, latitude, out)
  THEN cacheSet(cache, getCacheKey(latitude, longitude),
                [tilt |-> sweepTilt(variant, latitude, out), timestamp |-> t])
  ELSE cache

AllFailed(out) == \A i \in DOMAIN out : ~out[i].ok

(***************************************************************************)
(* Direct calls of getOptimalTiltFromPVWatts / getWinterPriorityTilt-      *)
(* FromPVWatts: a call reads the cache and either returns at once or has   *)
(* its sweep in flight until the joined requests complete.                 *)
(***************************************************************************)
ApiLocations ==
  {[latitude |-> 8200000, longitude |-> -12000000],
   [latitude |-> -8500400, longitude |-> 1000000],
   [latitude |-> -8500000, longitude |-> 1000400]}

ApiFresh == [calls |-> 0, inflight |-> {}, last |-> Null]

\* the call finds a fresh cache entry (lines 157-165, 239-248)
ApiCallCached(variant, loc) ==
  /\ api.calls < MaxCalls
  /\ cacheHit(CacheOf(variant), getCacheKey(loc.latitude, loc.longitude), now)
  /\ api' = [api EXCEPT
       !.calls = @ + 1,
       !.last = Some([variant |-> variant, loc |-> loc,
                      tilt |-> CacheOf(variant)[getCacheKey(loc.latitude, loc.longitude)].tilt,
                      confidence |-> "cached", requests |-> 0,
                      allFailed |-> FALSE])]
  /\ UNCHANGED <<tiltCache, winterTiltCache, now>>
  /\ UNCHANGED notApi

\* the call misses the cache and issues one request per test angle
ApiCallSweep(variant, loc) ==
  /\ api.calls < MaxCalls
  /\ ~cacheHit(CacheOf(variant), getCacheKey(loc.latitude, loc.longitude), now)
  /\ api' = [api EXCEPT
       !.calls = @ + 1,
       !.inflight = @ \cup {[id |-> api.calls + 1, variant |-> variant, loc |-> loc]}]
  /\ UNCHANGED <<tiltCache, winterTiltCache, now>>
  /\ UNCHANGED notApi

\* Promise.all of a sweep resolves with the outcomes out
ApiSweepDone(c, out) ==
  /\ c \in api.inflight
  /\ LET r == sweepResult(c.variant, c.loc.latitude, out) IN
     api' = [api EXCEPT
       !.inflight = @ \ {c},
       !.last = Some([variant |-> c.variant, loc |-> c.loc,
                      tilt |-> r.tilt, confidence |-> r.confidence,
                      requests |-> Len(testAngles(c.variant, c.loc.latitude)),
                      allFailed |-> AllFailed(out)])]
  /\ tiltCache' = IF c.variant = "optimal"
       THEN cacheAfterSweep(tiltCache, c.variant, c.loc.latitude, c.loc.longitude, out, now)
       ELSE tiltCache
  /\ winterTiltCache' = IF c.variant = "winter"
       THEN cacheAfterSweep(winterTiltCache, c.variant, c.loc.latitude, c.loc.longitude, out, now)
       ELSE winterTiltCache
  /\ UNCHANGED now
  /\ UNCHANGED notApi

AdvanceClock(dt) ==
  /\ now + dt <= MaxNow
  /\ now' = now + dt
  /\ UNCHANGED <<haptic, hapticObs, tiltCache, winterTiltCache, api, pvLive, optAngle, sensor, geo, settings, align, angleOps, angleTable, sweep, theme>>

ApiNext ==
  \/ \E v \in Variants, loc \in ApiLocations : ApiCallCached(v, loc)
  \/ \E v \in Variants, loc \in ApiLocations : ApiCallSweep(v, loc)
  \/ \E c \in api.inflight : \E out \in SweepOutcomes(c.variant, c.loc.latitude) :
       ApiSweepDone(c, out)
  \/ \E dt \in ClockSteps : AdvanceClock(dt)

(***************************************************************************)
(* usePVWattsLive (src/unnamed/part_010)                                   *)
(* tiltOf is not a field of the hook: it records which (cache key,         *)
(* winterPriority) the displayed tilt was fetched for.                     *)
(***************************************************************************)
MaxFetches == 2

\* two locations in one cache bucket and one with short sweeps near the pole
Locations ==
  {[latitude |-> 8800000, longitude |-> -12000000],
   [latitude |-> -8500400, longitude |-> 1000000],
   [latitude |-> -8500000, longitude |-> 1000400]}

MaybeLocations == {Null} \cup {Some(l) : l \in Locations}

VariantOf(winterPriority) == IF winterPriority THEN "winter" ELSE "optimal"

PvEmptyState == [tilt |-> Null, isLoading |-> FALSE, isLive |-> FALSE]

\* lines 39-50: the cached tilt is shown at once, else the API call starts
fetchPVWatts(p, winterPriority, lat, lon) ==
  LET cachedTilt == getCached(CacheOf(VariantOf(winterPriority)), lat, lon, now) IN
  IF cachedTilt # Null
  THEN [p EXCEPT !.state = [tilt |-> cachedTilt, isLoading |-> FALSE, isLive |-> FALSE],
                 !.tiltOf = Some(<<getCacheKey(lat, lon), winterPriority>>)]
  ELSE [p EXCEPT !.state.isLoading = TRUE,
                 !.fetches = @ + 1,
                 !.inflight = @ \cup {[id |-> p.fetches + 1, winterPriority |-> winterPriority,
                                       lat |-> lat, lon |-> lon]}]

\* lines 56-60: the continuation after the await sets the state, whatever the
\* props are by then
fetchResolved(p, f, result) ==
  [p EXCEPT !.inflight = @ \ {f},
            !.state = [tilt |-> Some(result.tilt), isLoading |-> FALSE,
                       isLive |-> result.confidence = "live"],
            !.tiltOf = Some(<<getCacheKey(f.lat, f.lon), f.winterPriority>>)]

\* lines 68-82
hasLocationChanged(p, lat, lon) ==
  IF p.prevLocationRef = Null THEN TRUE
  ELSE LET prev == Val(p.prevLocationRef) IN
       toFixed2(prev.lat) # toFixed2(lat) \/ toFixed2(prev.lon) # toFixed2(lon)

\* the fetch effect, lines 107-122
pvFetchEffect(p) ==
  IF ~p.enabled \/ p.location = Null
  THEN [p EXCEPT !.state = PvEmptyState, !.tiltOf = Null, !.prevLocationRef = Null]
  ELSE LET location == Val(p.location)
           locationChanged == hasLocationChanged(p, location.latitude, location.longitude)
           modeChanged == p.prevWinterPriorityRef # p.winterPriority
           p1 == [p EXCEPT !.prevWinterPriorityRef = p.winterPriority]
       IN  IF locationChanged \/ modeChanged
           THEN fetchPVWatts(
                  [p1 EXCEPT !.prevLocationRef =
                     Some([lat |-> location.latitude, lon |-> location.longitude])],
                  p.winterPriority, location.latitude, location.longitude)
           ELSE p1

\* handleAppStateChange, lines 86-97
handleAppStateChange(p, nextAppState) ==
  LET p1 == IF /\ p.appState \in {"inactive", "background"}
               /\ nextAppState = "active"
               /\ p.enabled
               /\ p.location # Null
            THEN fetchPVWatts(p, p.winterPriority, Val(p.location).latitude,
                              Val(p.location).longitude)
            ELSE p
  IN  [p1 EXCEPT !.appState = nextAppState]

PvFresh(location, enabled, winterPriority) ==
  [location |-> location, enabled |-> enabled, winterPriority |-> winterPriority,
   state |-> PvEmptyState, tiltOf |-> Null,
   prevLocationRef |-> Null, prevWinterPriorityRef |-> winterPriority,
   appState |-> "active", inflight |-> {}, fetches |-> 0]

PvOff == PvFresh(Null, FALSE, FALSE)

\* a render with changed props re-runs the fetch effect
PvRender(location, enabled, winterPriority) ==
  /\ pvLive.fetches < MaxFetches
  /\ <<location, enabled, winterPriority>> #
       <<pvLive.location, pvLive.enabled, pvLive.winterPriority>>
  /\ pvLive' = pvFetchEffect([pvLive EXCEPT !.location = location, !.enabled = enabled,
                                            !.winterPriority = winterPriority])
  /\ UNCHANGED <<tiltCache, winterTiltCache, now>>
  /\ UNCHANGED notPvLive

\* the app goes to the background or returns to the foreground
PvAppState(nextAppState) ==
  /\ pvLive.fetches < MaxFetches
  /\ nextAppState # pvLive.appState
  /\ pvLive' = handleAppStateChange(pvLive, nextAppState)
  /\ UNCHANGED <<tiltCache, winterTiltCache, now>>
  /\ UNCHANGED notPvLive

\* the API call of a fetch resolves: the service caches its result and the
\* hook's continuation runs
PvFetchDone(f, out) ==
  /\ f \in pvLive.inflight
  /\ LET variant == VariantOf(f.winterPriority) IN
     /\ pvLive' = fetchResolved(pvLive, f, sweepResult(variant, f.lat, out))
     /\ tiltCache' = IF variant = "optimal"
          THEN cacheAfterSweep(tiltCache, variant, f.lat, f.lon, out, now)
          ELSE tiltCache
     /\ winterTiltCache' = IF variant = "winter"
          THEN cacheAfterSweep(winterTiltCache, variant, f.lat, f.lon, out, now)
          ELSE winterTiltCache
  /\ UNCHANGED now
  /\ UNCHANGED notPvLive

PvNext ==
  \/ \E l \in MaybeLocations, en \in BOOLEAN, wp \in BOOLEAN : PvRender(l, en, wp)
  \/ \E a \in {"active", "background"} : PvAppState(a)
  \/ \E f \in pvLive.inflight :
       \E out \in SweepOutcomes(VariantOf(f.winterPriority), f.lat) : PvFetchDone(f, out)
  \/ \E dt \in ClockSteps : AdvanceClock(dt)

(***************************************************************************)
(* solarCalculations (src/unnamed/part_006) and useOptimalAngle            *)
(* (src/unnamed/part_007).  A date is the month (0-11), the day of the     *)
(* year and the hour that new Date() reads.  issued, committed, seq and    *)
(* event are not fields of the hook: they number the recalculations in the *)
(* order they were issued and record which one the state shows.            *)
(***************************************************************************)
MaxRequests == 2

SEASONAL_ADJUSTMENT == 15

Modes == {"year-round", "seasonal", "daily"}

OptLocations ==
  {Null, Some([latitude |-> 8800000, longitude |-> -12000000]),
   Some([latitude |-> -8500400, longitude |-> 1000000])}

Algorithms == {"simple", "pvwatts", "pvwatts-live", "pvwatts-winter"}

Dates ==
  {[month |-> 2, dayOfYear |-> 81, hour |-> 12],
   [month |-> 2, dayOfYear |-> 81, hour |-> 6],
   [month |-> 5, dayOfYear |-> 172, hour |-> 12],
   [month |-> 11, dayOfYear |-> 355, hour |-> 12]}

\* the dates on which the sun-tracking formula has an exact value
EquinoxDates == {d \in Dates : d.dayOfYear = 81}

DatesFor(mode) == IF mode = "daily" THEN EquinoxDates ELSE Dates

\* mutant: the equator counted as southern
getHemisphereStrict(latitude) == IF latitude > 0 THEN "northern" ELSE "southern"

getHemisphere(latitude) == IF latitude >= 0 THEN "northern" ELSE "southern"

getOptimalAzimuth(latitude) == IF latitude >= 0 THEN 0 ELSE 180

\* mutant: the northern calendar in both hemispheres
getCurrentSeasonNorthern(date, hemisphere) ==
  IF date.month >= 2 /\ date.month <= 4 THEN "spring"
  ELSE IF date.month >= 5 /\ date.month <= 7 THEN "summer"
  ELSE IF date.month >= 8 /\ date.month <= 10 THEN "fall"
  ELSE "winter"

getCurrentSeason(date, hemisphere) ==
  LET season == IF date.month >= 2 /\ date.month <= 4 THEN "spring"
                ELSE IF date.month >= 5 /\ date.month <= 7 THEN "summer"
                ELSE IF date.month >= 8 /\ date.month <= 10 THEN "fall"
                ELSE "winter"
      flipMap == [spring |-> "fall", summer |-> "winter", fall |-> "spring",
                  winter |-> "summer"]
  IN  IF hemisphere = "southern" THEN flipMap[season] ELSE season

\* 1.3793 + lat (1.2011 + lat (-0.014404 + lat 0.000080509)) for a latitude of
\* whole degrees, to the nearest 0.00001 degree: the polynomial is
\* 1.3793 + 1.2011 L - 0.0144 L^2 + 0.00008 L^3 + (0.000000509 L^3 - 0.000004 L^2)
getJacobsonTilt(latitude) ==
  CASE Abs(latitude) % Deg(1) = 0 ->
    LET lat == Abs(latitude) \div Deg(1) IN
    137930 + 120110 * lat - 1440 * lat * lat + 8 * lat * lat * lat
      + (509 * lat * lat * lat - 4000 * lat * lat + 5000) \div 10000

\* simple |lat|, optimized 0.9 |lat|, landau 0.76 |lat| + 3.1, pvwatts 0.87 |lat|;
\* every other algorithm takes the default branch (simple)
getTiltByAlgorithm(latitude, algorithm) ==
  CASE algorithm = "optimized" -> (Abs(latitude) * 9) \div 10
    [] algorithm = "landau" -> (Abs(latitude) * 76) \div 100 + 310000
    [] algorithm = "jacobson" -> getJacobsonTilt(latitude)
    [] algorithm = "pvwatts" -> (Abs(latitude) * 87) \div 100
    [] algorithm \in {"simple", "pvwatts-live", "pvwatts-winter"} -> Abs(latitude)

getYearRoundTilt(latitude, algorithm) == getTiltByAlgorithm(latitude, algorithm)

Max(a, b) == IF a >= b THEN a ELSE b
Min(a, b) == IF a <= b THEN a ELSE b

getSeasonalTilt(latitude, season, algorithm) ==
  LET baseTilt == getTiltByAlgorithm(latitude, algorithm) IN
  CASE season = "summer" -> Max(0, baseTilt - Deg(SEASONAL_ADJUSTMENT))
    [] season = "winter" -> Min(Deg(90), baseTilt + Deg(SEASONAL_ADJUSTMENT))
    [] OTHER -> baseTilt

\* 23.45 x sin(360/365 x (N - 81)): zero on day 81
getSolarDeclination(dayOfYear) ==
  CASE dayOfYear = 81 -> 0

getHourAngle(hour) == Deg(15 * (hour - 12))

\* asin(sin(lat) sin(dec) + cos(lat) cos(dec) cos(H)) at dec = 0:
\* 90 - |lat| at solar noon, 0 six hours from it
getSolarAltitude(latitude, declination, hourAngle) ==
  CASE declination = 0 /\ hourAngle = 0 -> Deg(90) - Abs(latitude)
    [] declination = 0 /\ Abs(hourAngle) = Deg(90) -> 0

getDailyTilt(latitude, date) ==
  LET declination == getSolarDeclination(date.dayOfYear)
      hourAngle == getHourAngle(date.hour)
      solarAltitude == getSolarAltitude(latitude, declination, hourAngle)
      optimalTilt == Deg(90) - solarAltitude
  IN  Max(0, Min(Deg(90), optimalTilt))

calculateOptimalAngles(location, mode, date, algorithm) ==
  LET latitude == location.latitude
      hemisphere == getHemisphere(latitude)
      tilt == CASE mode = "seasonal" ->
                     getSeasonalTilt(latitude, getCurrentSeason(date, hemisphere), algorithm)
                [] mode = "daily" -> getDailyTilt(latitude, date)
                [] OTHER -> getYearRoundTilt(latitude, algorithm)
  IN  [tilt |-> tilt, azimuth |-> getOptimalAzimuth(latitude), hemisphere |-> hemisphere]

OptEmptyState == [optimalAngles |-> Null, isCalculating |-> FALSE, isLive |-> FALSE]

\* calculateOptimalAngles applied to one location, mode, date and algorithm
anglesApply(latitude, mode, date, algorithm) ==
  [latitude |-> latitude, mode |-> mode, date |-> date, algorithm |-> algorithm,
   result |-> calculateOptimalAngles([latitude |-> latitude, longitude |-> 0],
                                     mode, date, algorithm)]

\* calculateAllAlgorithms (the comparison display)
calculateAllAlgorithms(latitude, mode, date) ==
  IF mode = "daily"
  THEN LET dailyTilt == getDailyTilt(latitude, date) IN
       [simple |-> dailyTilt, optimized |-> dailyTilt, landau |-> dailyTilt,
        jacobson |-> dailyTilt, pvwatts |-> dailyTilt]
  ELSE IF mode = "seasonal"
  THEN LET season == getCurrentSeason(date, getHemisphere(latitude)) IN
       [simple |-> getSeasonalTilt(latitude, season, "simple"),
        optimized |-> getSeasonalTilt(latitude, season, "optimized"),
        landau |-> getSeasonalTilt(latitude, season, "landau"),
        jacobson |-> getSeasonalTilt(latitude, season, "jacobson"),
        pvwatts |-> getSeasonalTilt(latitude, season, "pvwatts")]
  ELSE [simple |-> getTiltByAlgorithm(latitude, "simple"),
        optimized |-> getTiltByAlgorithm(latitude, "optimized"),
        landau |-> getTiltByAlgorithm(latitude, "landau"),
        jacobson |-> getTiltByAlgorithm(latitude, "jacobson"),
        pvwatts |-> getTiltByAlgorithm(latitude, "pvwatts")]

\* mutant: the response of every request is taken for the current one
isCurrentRequestAlways(o, currentRequestId) == TRUE

\* currentRequestId === requestIdRef.current (lines 63, 76)
isCurrentRequest(o, currentRequestId) == currentRequestId = o.requestIdRef

\* the then-callback of the API call, lines 61-74; the API functions catch
\* every failure themselves, so the catch-callback of lines 75-87 never runs
apiCallThen(o, r, result) ==
  IF ~isCurrentRequest(o, r.requestId)
  THEN [o EXCEPT !.event = "stale"]
  ELSE [o EXCEPT
         !.state = [optimalAngles |->
                      Some([tilt |-> result.tilt,
                            azimuth |-> getOptimalAzimuth(r.location.latitude),
                            hemisphere |-> getHemisphere(r.location.latitude)]),
                    isCalculating |-> FALSE,
                    isLive |-> result.confidence = "live"],
         !.committed = r.seq,
         !.event = "response"]

\* lines 54-90: the API call returns the cached tilt (its promise is already
\* resolved) or has its sweep in flight
asyncCalculation(o, r) ==
  LET variant == IF r.algorithm = "pvwatts-winter" THEN "winter" ELSE "optimal"
      key == getCacheKey(r.location.latitude, r.location.longitude)
  IN  IF cacheHit(CacheOf(variant), key, now)
      THEN apiCallThen(o, r, [tilt |-> CacheOf(variant)[key].tilt, confidence |-> "cached"])
      ELSE [o EXCEPT !.inflight = @ \cup {r}]

\* lines 92-104: the synchronous calculation, and the one-minute interval of
\* daily mode
syncCalculation(o, r, date) ==
  LET o2 == [o EXCEPT
               !.state = [optimalAngles |->
                            Some(calculateOptimalAngles(r.location, r.mode, date, r.algorithm)),
                          isCalculating |-> FALSE, isLive |-> FALSE],
               !.committed = r.seq]
  IN  IF r.mode = "daily" THEN [o2 EXCEPT !.interval = Some(r)] ELSE o2

\* the effect, lines 45-105
optEffect(o, date) ==
  IF o.location = Null
  THEN [o EXCEPT !.state = OptEmptyState, !.committed = 0, !.event = "null"]
  ELSE LET currentRequestId == o.requestIdRef + 1
           r == [requestId |-> currentRequestId, location |-> Val(o.location),
                 mode |-> o.mode, algorithm |-> o.algorithm, seq |-> o.issued + 1]
           o1 == [o EXCEPT !.requestIdRef = currentRequestId,
                           !.state.isCalculating = TRUE,
                           !.issued = @ + 1,
                           !.event = "request"]
       IN  IF o.algorithm \in {"pvwatts-live", "pvwatts-winter"} /\ o.mode # "daily"
           THEN asyncCalculation(o1, r)
           ELSE syncCalculation(o1, r, date)

\* mutant: the effect returns no cleanup
optCleanupNone(o) == o

\* return () => clearInterval(interval), registered in daily mode only
optCleanup(o) == [o EXCEPT !.interval = Null]

OptFresh(location, mode, algorithm) ==
  [mounted |-> TRUE, location |-> location, mode |-> mode, algorithm |-> algorithm,
   state |-> OptEmptyState, requestIdRef |-> 0, interval |-> Null, inflight |-> {},
   issued |-> 0, committed |-> 0, event |-> "init"]

OptOff == OptFresh(Null, "year-round", "simple")

\* a render with a changed location, mode or algorithm
OptRender(location, mode, algorithm, date) ==
  /\ optAngle.mounted
  /\ optAngle.issued < MaxRequests
  /\ <<location, mode, algorithm>> # <<optAngle.location, optAngle.mode, optAngle.algorithm>>
  /\ optAngle' = optEffect([optCleanup(optAngle) EXCEPT !.location = location,
                              !.mode = mode, !.algorithm = algorithm], date)
  /\ UNCHANGED <<tiltCache, winterTiltCache, now>>
  /\ UNCHANGED notOptAngle

\* the API call of a request resolves: the service caches its result and the
\* then-callback runs (its setState does nothing once the hook is unmounted)
OptResponse(r, out) ==
  /\ r \in optAngle.inflight
  /\ LET variant == IF r.algorithm = "pvwatts-winter" THEN "winter" ELSE "optimal" IN
     /\ optAngle' = IF optAngle.mounted
                     THEN apiCallThen([optAngle EXCEPT !.inflight = @ \ {r}], r,
                                      sweepResult(variant, r.location.latitude, out))
                     ELSE [optAngle EXCEPT !.inflight = @ \ {r}, !.event = "unmounted"]
     /\ tiltCache' = IF variant = "optimal"
          THEN cacheAfterSweep(tiltCache, variant, r.location.latitude,
                               r.location.longitude, out, now)
          ELSE tiltCache
     /\ winterTiltCache' = IF variant = "winter"
          THEN cacheAfterSweep(winterTiltCache, variant, r.location.latitude,
                               r.location.longitude, out, now)
          ELSE winterTiltCache
  /\ UNCHANGED now
  /\ UNCHANGED notOptAngle

\* the one-minute interval of daily mode fires
OptTick(date) ==
  /\ optAngle.interval # Null
  /\ LET r == Val(optAngle.interval) IN
     optAngle' = [optAngle EXCEPT
       !.state = [optimalAngles |->
                    Some(calculateOptimalAngles(r.location, r.mode, date, r.algorithm)),
                  isCalculating |-> FALSE, isLive |-> FALSE],
       !.committed = r.seq,
       !.event = "tick"]
  /\ UNCHANGED <<tiltCache, winterTiltCache, now>>
  /\ UNCHANGED notOptAngle

\* the component unmounts: React runs the cleanup of the last effect run
OptUnmount ==
  /\ optAngle.mounted
  /\ optAngle' = [optCleanup(optAngle) EXCEPT !.mounted = FALSE, !.event = "unmount"]
  /\ UNCHANGED <<tiltCache, winterTiltCache, now>>
  /\ UNCHANGED notOptAngle

\* the hook over its whole life, at one instant of the cache clock
OptLifeNext ==
  \/ \E l \in OptLocations, m \in Modes, a \in Algorithms :
       \E date \in DatesFor(m) : OptRender(l, m, a, date)
  \/ \E r \in optAngle.inflight :
       \E out \in SweepOutcomes(IF r.algorithm = "pvwatts-winter" THEN "winter" ELSE "optimal",
                                r.location.latitude) : OptResponse(r, out)
  \/ \E date \in EquinoxDates : OptTick(date)
  \/ OptUnmount

OptNext ==
  \/ \E l \in OptLocations, m \in Modes, a \in Algorithms :
       \E date \in DatesFor(m) : OptRender(l, m, a, date)
  \/ \E r \in optAngle.inflight :
       \E out \in SweepOutcomes(IF r.algorithm = "pvwatts-winter" THEN "winter" ELSE "optimal",
                                r.location.latitude) : OptResponse(r, out)
  \/ \E date \in EquinoxDates : OptTick(date)
  \/ \E dt \in ClockSteps : AdvanceClock(dt)

\* ---------------------------------------------------------------------------
\* useAccelerometer, useMagnetometer, useTiltCompensatedCompass: the
\* subscription effect.  `sensor` follows one hook instance: the effect runs it
\* has started (each with its own closure), the availability probes still
\* pending, the subscription variables of the closures and the listeners the
\* native sensor modules hold.

MaxMounts == 2

SensorHooks == {"useAccelerometer", "useMagnetometer", "useTiltCompensatedCompass"}

\* the sensors a hook probes, in the order its setup tests them
devicesOf(hook) ==
  CASE hook = "useAccelerometer" -> <<"Accelerometer">>
    [] hook = "useMagnetometer" -> <<"Magnetometer">>
    [] OTHER -> <<"Accelerometer", "Magnetometer">>

deviceSet(hook) == {devicesOf(hook)[i] : i \in 1..Len(devicesOf(hook))}

\* what the awaited isAvailableAsync() calls settle to
ProbeOutcomes(hook) ==
  {[rejected |-> TRUE, available |-> {}]}
    \cup {[rejected |-> FALSE, available |-> a] : a \in SUBSET deviceSet(hook)}

\* the first sensor the setup finds unavailable, if any
firstUnavailable(hook, available) ==
  LET ds == devicesOf(hook)
      missing == {i \in 1..Len(ds) : ds[i] \notin available}
  IN IF missing = {} THEN Null
     ELSE Some(ds[CHOOSE i \in missing : \A j \in missing : i <= j])

\* useState: the readings start at zero (isFlat is a field of useAccelerometer)
sensorInitialState ==
  [heading |-> 0, rawHeading |-> 0, tilt |-> 0, roll |-> 0, isFlat |-> TRUE,
   isAvailable |-> FALSE, error |-> Null]

\* useRef: accelRef, magRef, continuousAngleRef, smoothedTiltRef,
\* smoothedRollRef, initializedRef
sensorInitialRefs ==
  [accelRef |-> Null, magRef |-> Null, continuousAngleRef |-> 0,
   smoothedTiltRef |-> 0, smoothedRollRef |-> 0, initializedRef |-> FALSE]

\* setState of the closure of effect run `run`: only the mounted instance that
\* started the run has state to update
sensorSetState(s, run, newState) ==
  IF s.mounted /\ s.current = run THEN [s EXCEPT !.state = newState] ELSE s

\* setup() subscribing whatever the probe reported: the mutant of
\* setupContinuation
setupContinuationSubscribes(s, run, out) ==
  LET added == {<<run, d>> : d \in deviceSet(s.hook)}
  IN [sensorSetState([s EXCEPT !.probes = @ \ {run}], run,
        [s.state EXCEPT !.isAvailable = ~out.rejected /\ out.available = deviceSet(s.hook),
                        !.error = IF out.rejected \/ out.available # deviceSet(s.hook)
                                  THEN Some("unavailable") ELSE Null])
        EXCEPT !.subscriptions = @ \cup added,
               !.listeners = @ \cup added]

\* the part of setup() after the await, run by effect run `run`
setupContinuation(s, run, out) ==
  LET missing == firstUnavailable(s.hook, out.available)
      t == [s EXCEPT !.probes = @ \ {run}]
  IN IF out.rejected
       THEN sensorSetState(t, run,
              [t.state EXCEPT !.error = Some("Failed to initialize")])
     ELSE IF missing # Null
       THEN sensorSetState(t, run,
              [t.state EXCEPT !.isAvailable = FALSE, !.error = Some(Val(missing))])
     ELSE LET added == {<<run, d>> : d \in deviceSet(s.hook)}
          IN [sensorSetState(t, run,
                [t.state EXCEPT !.isAvailable = TRUE, !.error = Null])
                EXCEPT !.subscriptions = @ \cup added,
                       !.listeners = @ \cup added]

\* the cleanup returned by the effect: removes the subscriptions its closure
\* holds at that moment
sensorCleanup(s) ==
  [s EXCEPT !.mounted = FALSE,
            !.listeners = @ \ {l \in s.subscriptions : l[1] = s.current}]

\* the effect body up to the await: a new closure, setup() started
sensorEffect(s) ==
  [s EXCEPT !.mounted = TRUE,
            !.mounts = @ + 1,
            !.current = s.mounts + 1,
            !.probes = @ \cup {s.mounts + 1},
            !.state = sensorInitialState,
            !.refs = sensorInitialRefs]

SensorOff ==
  [hook |-> "useAccelerometer", mounted |-> FALSE, mounts |-> 0, current |-> 0,
   probes |-> {}, subscriptions |-> {}, listeners |-> {},
   platform |-> "ios", samples |-> 0, probed |-> {},
   state |-> sensorInitialState, refs |-> sensorInitialRefs]

SensorFresh(hook, platform) ==
  sensorEffect([SensorOff EXCEPT !.hook = hook, !.platform = platform])

\* ---- the readings: angles are integers in 1/Unit degree, fine enough for
\* MaxSamples smoothing steps of MagSamples' quarter degrees to be exact
MaxSamples == 3

Unit == 4 * 20^MaxSamples

SensorDeg(n) == n * Unit

QuarterDeg(q) == q * (Unit \div 4)

Platforms == {"ios", "android"}

\* SMOOTHING_FACTOR in twentieths: 0.15 on android, 0.25 elsewhere and in
\* useMagnetometer
SMOOTHING_FACTOR(hook, platform) ==
  IF hook = "useTiltCompensatedCompass" /\ platform = "android" THEN 3 ELSE 5

\* TILT_SMOOTHING = 0.3, in twentieths
TILT_SMOOTHING == 6

\* the % of the language: the remainder has the sign of the dividend
jsRem(a, n) == IF a >= 0 THEN a % n ELSE -((-a) % n)

normalizeAngle(angle) ==
  jsRem(jsRem(angle, SensorDeg(360)) + SensorDeg(360), SensorDeg(360))

\* mutant: the difference taken without the wrap at +-180
shortestDeltaNoWrap(from, to) == to - from

shortestDelta(from, to) ==
  LET d0 == to - from
      d1 == IF d0 > SensorDeg(180) THEN d0 - SensorDeg(360) ELSE d0
  IN IF d1 < -SensorDeg(180) THEN d1 + SensorDeg(360) ELSE d1

\* accelerometer measurements: gravity along one device axis (screen up,
\* screen down, top up)
AccelSamples ==
  {[x |-> 0, y |-> 0, z |-> 1], [x |-> 0, y |-> 0, z |-> -1],
   [x |-> 0, y |-> 1, z |-> 0]}

\* magnetometer measurements: a horizontal field (z = 0) given by its polar
\* angle atan2(y, x) in degrees: 90.25, 90, 89.75 and -90
MagSamples ==
  {[theta |-> QuarterDeg(361)], [theta |-> QuarterDeg(360)],
   [theta |-> QuarterDeg(359)], [theta |-> QuarterDeg(-360)]}

SamplesOf(device) == IF device = "Accelerometer" THEN AccelSamples ELSE MagSamples

\* Math.atan2(y, Math.sqrt(x * x + z * z)) * (180 / Math.PI) on an axis vector
pitchDegrees(accel) == SensorDeg(90) * accel.y

\* Math.atan2(x, Math.sqrt(y * y + z * z)) * (180 / Math.PI) on an axis vector
rollDegrees(accel) == SensorDeg(90) * accel.x

\* with gravity on the z axis E = (my gz, -mx gz, 0) and N = (mx, my, 0), so
\* atan2(ey, ny) = -gz atan2(mx, my) and atan2(mx, my) = 90 - theta; with
\* gravity on the y axis ey = ny = 0 and atan2(0, 0) = 0
calculateTiltCompensatedHeading(accel, mag) ==
  IF accel.z = 1 THEN normalizeAngle(-(-(SensorDeg(90) - mag.theta)))
  ELSE IF accel.z = -1 THEN normalizeAngle(-(SensorDeg(90) - mag.theta))
  ELSE normalizeAngle(0)

\* useAccelerometer.calculateTilt
calculateTilt(s, data) ==
  LET absoluteTilt == Abs(pitchDegrees(data)) IN
  sensorSetState(s, s.current,
    [s.state EXCEPT !.tilt = Max(0, Min(SensorDeg(90), absoluteTilt)),
                    !.roll = rollDegrees(data),
                    !.isFlat = absoluteTilt < SensorDeg(60)])

\* the continuous angle after a raw heading: set by the first one, afterwards
\* moved by the smoothed shortest delta when that exceeds 0.3 degree
accumulate(s, rawHeading) ==
  IF ~s.refs.initializedRef THEN rawHeading
  ELSE LET delta == shortestDelta(normalizeAngle(s.refs.continuousAngleRef), rawHeading)
       IN IF Abs(delta) * 10 > SensorDeg(3)
          THEN s.refs.continuousAngleRef
                 + (delta * SMOOTHING_FACTOR(s.hook, s.platform)) \div 20
          ELSE s.refs.continuousAngleRef

\* displayHeading >= 359.5 ? 0 : displayHeading
finalDisplay(displayHeading) ==
  IF displayHeading * 2 >= SensorDeg(719) THEN 0 ELSE displayHeading

\* useMagnetometer.calculateHeading
calculateHeading(s, data) ==
  LET rawHeading == normalizeAngle(data.theta - SensorDeg(90))
      continuous == accumulate(s, rawHeading)
      t == [s EXCEPT !.refs.continuousAngleRef = continuous,
                     !.refs.initializedRef = TRUE]
  IN sensorSetState(t, t.current,
       [t.state EXCEPT !.heading = finalDisplay(normalizeAngle(continuous)),
                       !.rawHeading = continuous])

\* useTiltCompensatedCompass.updateHeading
updateHeading(s) ==
  IF s.refs.accelRef = Null \/ s.refs.magRef = Null THEN s
  ELSE
    LET accel == Val(s.refs.accelRef)
        mag == Val(s.refs.magRef)
        tiltDegrees == Abs(pitchDegrees(accel))
        smoothedTilt == s.refs.smoothedTiltRef
          + ((tiltDegrees - s.refs.smoothedTiltRef) * TILT_SMOOTHING) \div 20
        smoothedRoll == s.refs.smoothedRollRef
          + ((rollDegrees(accel) - s.refs.smoothedRollRef) * TILT_SMOOTHING) \div 20
        continuous == accumulate(s, calculateTiltCompensatedHeading(accel, mag))
        t == [s EXCEPT !.refs.smoothedTiltRef = smoothedTilt,
                       !.refs.smoothedRollRef = smoothedRoll,
                       !.refs.continuousAngleRef = continuous,
                       !.refs.initializedRef = TRUE]
    IN sensorSetState(t, t.current,
         [t.state EXCEPT !.heading = finalDisplay(normalizeAngle(continuous)),
                         !.rawHeading = continuous,
                         !.tilt = Max(0, Min(SensorDeg(90), smoothedTilt)),
                         !.roll = smoothedRoll])

handleAccelerometer(s, data) == updateHeading([s EXCEPT !.refs.accelRef = Some(data)])

handleMagnetometer(s, data) == updateHeading([s EXCEPT !.refs.magRef = Some(data)])

\* the listener a hook registered with a sensor module
handleSample(s, device, data) ==
  IF s.hook = "useAccelerometer" THEN calculateTilt(s, data)
  ELSE IF s.hook = "useMagnetometer" THEN calculateHeading(s, data)
  ELSE IF device = "Accelerometer" THEN handleAccelerometer(s, data)
  ELSE handleMagnetometer(s, data)

SensorMount ==
  /\ ~sensor.mounted
  /\ sensor.mounts < MaxMounts
  /\ sensor' = sensorEffect(sensor)
  /\ UNCHANGED notSensor

\* probed is not a field of the hook: it records what each run's probe
\* settled to
SensorProbeDone(run, out) ==
  /\ run \in sensor.probes
  /\ sensor' = [setupContinuation(sensor, run, out)
                 EXCEPT !.probed = @ \cup {[run |-> run, out |-> out]}]
  /\ UNCHANGED notSensor

SensorUnmount ==
  /\ sensor.mounted
  /\ sensor' = sensorCleanup(sensor)
  /\ UNCHANGED notSensor

\* a sensor module delivers a measurement to a listener of the mounted
\* instance (a delivery to a listener of a discarded instance reaches only that
\* instance's refs and its dropped setState)
SensorSample(l, data) ==
  /\ l \in sensor.listeners
  /\ sensor.mounted /\ l[1] = sensor.current
  /\ sensor.samples < MaxSamples
  /\ sensor' = [handleSample(sensor, l[2], data) EXCEPT !.samples = @ + 1]
  /\ UNCHANGED notSensor

SensorNext ==
  \/ SensorMount
  \/ \E l \in sensor.listeners : \E data \in SamplesOf(l[2]) : SensorSample(l, data)
  \/ \E run \in sensor.probes, out \in ProbeOutcomes(sensor.hook) :
       SensorProbeDone(run, out)
  \/ SensorUnmount

(***************************************************************************)
(* useLocation (src/unnamed/part_008): the cached location is shown first, *)
(* then every fetchLocation run asks for the permission, the position and  *)
(* the cache write in turn, each behind an await.                          *)
(***************************************************************************)
MaxLocationFetches == 2

CACHE_MAX_AGE_MS == 24

Positions ==
  {[latitude |-> 3500000, longitude |-> -12000000],
   [latitude |-> -3300000, longitude |-> 15100000]}

\* what AsyncStorage holds at start: nothing, a location cached now, or one
\* cached 24 h ago
StoredLocations ==
  {Null} \cup {Some([latitude |-> p.latitude, longitude |-> p.longitude, timestamp |-> ts]) :
                 p \in Positions, ts \in {0, -CACHE_MAX_AGE_MS}}

PermissionStatuses == {"granted", "denied", "undetermined"}

geoInitialState ==
  [location |-> Null, isLoading |-> TRUE, isRefreshing |-> FALSE,
   isCached |-> FALSE, error |-> Null, permissionStatus |-> Null]

\* loadCachedLocation: the stored location if it parses and is younger than
\* the maximum age, null otherwise (also when getItem rejects)
loadCachedLocation(storage, readFails, t) ==
  IF readFails \/ storage = Null THEN Null
  ELSE IF t - Val(storage).timestamp < CACHE_MAX_AGE_MS THEN storage
  ELSE Null

\* fetchLocation up to its first await
fetchLocation(g, isManualRefresh) ==
  [g EXCEPT
     !.state = [@ EXCEPT !.isLoading = (g.state.location = Null),
                         !.isRefreshing = (g.state.location # Null \/ isManualRefresh),
                         !.error = Null],
     !.fetches = @ + 1,
     !.tasks = @ \cup {[id |-> g.fetches + 1, stage |-> "permission", location |-> Null]}]

\* the catch block of fetchLocation
fetchFailed(g, task) ==
  [g EXCEPT
     !.state = [@ EXCEPT !.isLoading = (g.state.location = Null),
                         !.isRefreshing = FALSE,
                         !.error = IF g.state.location = Null
                                   THEN Some("Failed to get location") ELSE Null],
     !.tasks = @ \ {task}]

\* requestForegroundPermissionsAsync has settled
permissionSettled(g, task, status) ==
  IF status = "rejected" THEN fetchFailed(g, task)
  ELSE IF status # "granted"
  THEN [g EXCEPT
          !.state = [@ EXCEPT !.permissionStatus = Some(status),
                              !.isLoading = FALSE,
                              !.isRefreshing = FALSE,
                              !.error = Some("Location permission denied")],
          !.tasks = @ \ {task}]
  ELSE [g EXCEPT
          !.state = [@ EXCEPT !.permissionStatus = Some(status)],
          !.tasks = (@ \ {task}) \cup {[task EXCEPT !.stage = "position"]}]

\* getCurrentPositionAsync has settled: the location is stamped and handed to
\* cacheLocation, whose setItem may fail without effect
positionSettled(g, task, position, writeFails, t) ==
  IF position = Null THEN fetchFailed(g, task)
  ELSE LET locationData == [latitude |-> Val(position).latitude,
                            longitude |-> Val(position).longitude,
                            timestamp |-> t]
       IN [g EXCEPT
             !.storage = IF writeFails THEN @ ELSE Some(locationData),
             !.tasks = (@ \ {task})
                \cup {[task EXCEPT !.stage = "caching", !.location = Some(locationData)]}]

\* cacheLocation has settled
locationCached(g, task) ==
  [g EXCEPT
     !.state = [@ EXCEPT !.location = task.location,
                         !.isLoading = FALSE,
                         !.isRefreshing = FALSE,
                         !.isCached = FALSE,
                         !.error = Null],
     !.tasks = @ \ {task}]

\* initialize after loadCachedLocation has settled
initialize(g, cached) ==
  fetchLocation(
    [g EXCEPT !.initializing = FALSE,
              !.state = IF cached # Null
                        THEN [@ EXCEPT !.location = cached,
                                       !.isLoading = FALSE,
                                       !.isCached = TRUE]
                        ELSE @],
    FALSE)

GeoOff ==
  [mounted |-> FALSE, initializing |-> FALSE, storage |-> Null, fetches |-> 0,
   tasks |-> {}, state |-> geoInitialState]

GeoFresh(storage) ==
  [GeoOff EXCEPT !.mounted = TRUE, !.initializing = TRUE, !.storage = storage]

GeoInitialized(readFails) ==
  /\ geo.initializing
  /\ geo' = initialize(geo, loadCachedLocation(geo.storage, readFails, now))
  /\ UNCHANGED notGeo

GeoRefresh ==
  /\ geo.mounted
  /\ geo.fetches < MaxLocationFetches
  /\ geo' = fetchLocation(geo, TRUE)
  /\ UNCHANGED notGeo

GeoPermission(task, status) ==
  /\ task \in geo.tasks /\ task.stage = "permission"
  /\ geo' = permissionSettled(geo, task, status)
  /\ UNCHANGED notGeo

GeoPosition(task, position, writeFails) ==
  /\ task \in geo.tasks /\ task.stage = "position"
  /\ geo' = positionSettled(geo, task, position, writeFails, now)
  /\ UNCHANGED notGeo

GeoCached(task) ==
  /\ task \in geo.tasks /\ task.stage = "caching"
  /\ geo' = locationCached(geo, task)
  /\ UNCHANGED notGeo

GeoNext ==
  \/ \E readFails \in BOOLEAN : GeoInitialized(readFails)
  \/ GeoRefresh
  \/ \E task \in geo.tasks : \E status \in PermissionStatuses \cup {"rejected"} :
       GeoPermission(task, status)
  \/ \E task \in geo.tasks :
       \E position \in {Null} \cup {Some(p) : p \in Positions}, writeFails \in BOOLEAN :
         GeoPosition(task, position, writeFails)
  \/ \E task \in geo.tasks : GeoCached(task)

(***************************************************************************)
(* alignmentStatus.ts: the classification of a reading against its target. *)
(* Angles here are integers in half degrees; `align` is the reading, the   *)
(* target and the AlignmentResult the screen computed from them.           *)
(***************************************************************************)
HalfDeg(n) == 2 * n

TILT_THRESHOLDS == [BEST |-> HalfDeg(2), GOOD |-> HalfDeg(5)]

AZIMUTH_THRESHOLDS == [BEST |-> HalfDeg(5), GOOD |-> HalfDeg(15)]

\* the mutant of getTiltStatus: the thresholds excluded
getTiltStatusStrict(deviation) ==
  IF Abs(deviation) < TILT_THRESHOLDS.BEST THEN "best"
  ELSE IF Abs(deviation) < TILT_THRESHOLDS.GOOD THEN "good"
  ELSE "bad"

getTiltStatus(deviation) ==
  IF Abs(deviation) <= TILT_THRESHOLDS.BEST THEN "best"
  ELSE IF Abs(deviation) <= TILT_THRESHOLDS.GOOD THEN "good"
  ELSE "bad"

getAzimuthStatus(deviation) ==
  IF Abs(deviation) <= AZIMUTH_THRESHOLDS.BEST THEN "best"
  ELSE IF Abs(deviation) <= AZIMUTH_THRESHOLDS.GOOD THEN "good"
  ELSE "bad"

\* while (deviation > 180) deviation -= 360
RECURSIVE whileAbove(_)
whileAbove(deviation) ==
  IF deviation > HalfDeg(180) THEN whileAbove(deviation - HalfDeg(360)) ELSE deviation

\* while (deviation < -180) deviation += 360
RECURSIVE whileBelow(_)
whileBelow(deviation) ==
  IF deviation < -HalfDeg(180) THEN whileBelow(deviation + HalfDeg(360)) ELSE deviation

calculateAngleDeviation(current, target) == whileBelow(whileAbove(current - target))

\* Math.round(x) of the fraction num / den with den > 0: floor(x + 1/2)
mathRound(num, den) ==
  LET n == 2 * num + den
      d == 2 * den
  IN IF n >= 0 THEN n \div d ELSE -((-n + d - 1) \div d)

\* the mutant of calculateAlignmentPercentage: truncated instead of rounded
calculateAlignmentPercentageFloor(deviation, maxDeviation) ==
  Max(0, 100 * maxDeviation - 100 * Abs(deviation)) \div maxDeviation

\* Math.round(Math.max(0, 100 - (absDeviation / maxDeviation) * 100))
calculateAlignmentPercentage(deviation, maxDeviation) ==
  mathRound(Max(0, 100 * maxDeviation - 100 * Abs(deviation)), maxDeviation)

getAlignmentResult(currentTilt, targetTilt, currentAzimuth, targetAzimuth) ==
  LET tiltDeviation == currentTilt - targetTilt
      azimuthDeviation == calculateAngleDeviation(currentAzimuth, targetAzimuth)
  IN [tiltDeviation |-> tiltDeviation,
      azimuthDeviation |-> azimuthDeviation,
      tiltStatus |-> getTiltStatus(tiltDeviation),
      azimuthStatus |-> getAzimuthStatus(azimuthDeviation),
      tiltPercentage |-> calculateAlignmentPercentage(tiltDeviation, HalfDeg(45)),
      azimuthPercentage |-> calculateAlignmentPercentage(azimuthDeviation, HalfDeg(90))]

\* readings and targets, in half degrees
CurrentTilts == {HalfDeg(30), 65, HalfDeg(33), HalfDeg(35), HalfDeg(37), 75, HalfDeg(40), 81, HalfDeg(90)}

TargetTilts == {0, HalfDeg(35)}

CurrentHeadings ==
  {0, 1, HalfDeg(5), 11, HalfDeg(15), 31, HalfDeg(170), HalfDeg(180), 361, HalfDeg(355), 719}

TargetAzimuths == {0, HalfDeg(10), HalfDeg(180), 719}

alignRender(currentTilt, targetTilt, currentHeading, targetAzimuth) ==
  [currentTilt |-> currentTilt, targetTilt |-> targetTilt,
   currentHeading |-> currentHeading, targetAzimuth |-> targetAzimuth,
   result |-> Some(getAlignmentResult(currentTilt, targetTilt, currentHeading,
                                      targetAzimuth))]

\* before the first reading: no target, nothing computed
AlignOff ==
  [currentTilt |-> 0, targetTilt |-> 0, currentHeading |-> 0, targetAzimuth |-> 0,
   result |-> Null]

\* a new reading of the sensors
AlignReading(currentTilt, currentHeading) ==
  /\ align' = alignRender(currentTilt, align.targetTilt, currentHeading, align.targetAzimuth)
  /\ UNCHANGED notAlign

\* a new target
AlignTarget(targetTilt, targetAzimuth) ==
  /\ align' = alignRender(align.currentTilt, targetTilt, align.currentHeading, targetAzimuth)
  /\ UNCHANGED notAlign

AlignNext ==
  \/ \E t \in CurrentTilts, h \in CurrentHeadings : AlignReading(t, h)
  \/ \E t \in TargetTilts, a \in TargetAzimuths : AlignTarget(t, a)

(***************************************************************************)
(* normalizeAngle and shortestDelta applied to arbitrary arguments:        *)
(* `angleOps` holds the arguments a, b, the number k of turns added, and   *)
(* what the two functions returned for the plain and the shifted ones.     *)
(***************************************************************************)
AngleArgs ==
  {SensorDeg(0), SensorDeg(10), SensorDeg(170), SensorDeg(180), SensorDeg(190),
   SensorDeg(350), SensorDeg(-10), SensorDeg(370)}

Turns == {-2, -1, 0, 1, 2}

angleApply(a, b, k) ==
  [a |-> a, b |-> b, k |-> k,
   normalized |-> normalizeAngle(a),
   normalizedShifted |-> normalizeAngle(a + SensorDeg(360) * k),
   delta |-> shortestDelta(a, b),
   deltaFromShifted |-> shortestDelta(a + SensorDeg(360) * k, b),
   deltaToShifted |-> shortestDelta(a, b + SensorDeg(360) * k),
   deltaSelf |-> shortestDelta(a, a)]

AngleOff == Null

AngleApply(a, b, k) ==
  /\ angleOps' = Some(angleApply(a, b, k))
  /\ UNCHANGED notAngleOps

AngleNext == \E a \in AngleArgs, b \in AngleArgs, k \in Turns : AngleApply(a, b, k)

(***************************************************************************)
(* SettingsScreen.tsx and ThemeContext.setManualCoordinates: the manual     *)
(* coordinates.  A text is its longest numeric prefix (none: Null) and the  *)
(* characters after it, which is all parseFloat and toString depend on;     *)
(* coordinates are whole degrees.                                           *)
(***************************************************************************)
MaxEdits == 3

EmptyText == [prefix |-> Null, rest |-> ""]

\* "", "abc", "-", and numbers alone or followed by other characters
Texts ==
  {EmptyText, [prefix |-> Null, rest |-> "abc"], [prefix |-> Null, rest |-> "-"]}
    \cup {[prefix |-> Some(n), rest |-> r] : n \in {45, -91, 100, -180, 200}, r \in {"", "abc"}}

\* parseFloat: the numeric prefix, NaN (Null) without one
parseFloat(text) == text.prefix

\* Number.prototype.toString
toString(num) == [prefix |-> Some(num), rest |-> ""]

isValidLatitude(value) ==
  LET num == parseFloat(value) IN num # Null /\ Val(num) >= -90 /\ Val(num) <= 90

isValidLongitude(value) ==
  LET num == parseFloat(value) IN num # Null /\ Val(num) >= -180 /\ Val(num) <= 180

\* ThemeContext.setManualCoordinates
setManualCoordinates(st, lat, lon) ==
  [st EXCEPT !.manualLatitude = lat,
             !.manualLongitude = lon,
             !.saved = IF lat # Null /\ lon # Null
                       THEN Some([lat |-> Val(lat), lon |-> Val(lon)]) ELSE Null]

\* the effect that copies changed context values into the inputs
syncInputs(before, st) ==
  IF st.manualLatitude = before.manualLatitude /\ st.manualLongitude = before.manualLongitude
  THEN st
  ELSE [st EXCEPT
          !.latInput = IF st.manualLatitude # Null
                       THEN toString(Val(st.manualLatitude)) ELSE @,
          !.lonInput = IF st.manualLongitude # Null
                       THEN toString(Val(st.manualLongitude)) ELSE @]

handleLatChange(st, text) ==
  LET t == [st EXCEPT !.latInput = text] IN
  IF text = EmptyText \/ isValidLatitude(text)
  THEN LET lat == IF text = EmptyText THEN Null ELSE parseFloat(text)
           lon == IF st.lonInput = EmptyText THEN Null ELSE parseFloat(st.lonInput)
           u == [t EXCEPT !.latError = FALSE]
       IN IF lat # Null /\ lon # Null /\ isValidLongitude(st.lonInput)
          THEN setManualCoordinates(u, lat, lon)
          ELSE u
  ELSE [t EXCEPT !.latError = TRUE]

handleLonChange(st, text) ==
  LET t == [st EXCEPT !.lonInput = text] IN
  IF text = EmptyText \/ isValidLongitude(text)
  THEN LET lat == IF st.latInput = EmptyText THEN Null ELSE parseFloat(st.latInput)
           lon == IF text = EmptyText THEN Null ELSE parseFloat(text)
           u == [t EXCEPT !.lonError = FALSE]
       IN IF lat # Null /\ lon # Null /\ isValidLatitude(st.latInput)
          THEN setManualCoordinates(u, lat, lon)
          ELSE u
  ELSE [t EXCEPT !.lonError = TRUE]

\* the position has at most four decimals here, so parseFloat(x.toFixed(4)) is x
handleUseCurrentLocation(st, gpsLocation) ==
  setManualCoordinates(
    [st EXCEPT !.latInput = toString(gpsLocation.latitude),
               !.lonInput = toString(gpsLocation.longitude),
               !.latError = FALSE, !.lonError = FALSE],
    Some(gpsLocation.latitude), Some(gpsLocation.longitude))

GpsLocations == {[latitude |-> 35, longitude |-> -120]}

\* the screen opened on the stored pair: useState(manualLatitude?.toString() ?? '')
SettingsFresh(pair) ==
  [manualLatitude |-> IF pair = Null THEN Null ELSE Some(Val(pair).lat),
   manualLongitude |-> IF pair = Null THEN Null ELSE Some(Val(pair).lon),
   saved |-> pair,
   latInput |-> IF pair = Null THEN EmptyText ELSE toString(Val(pair).lat),
   lonInput |-> IF pair = Null THEN EmptyText ELSE toString(Val(pair).lon),
   latError |-> FALSE, lonError |-> FALSE,
   edits |-> 0, edited |-> Null]

SavedPairs == {Null, Some([lat |-> -33, lon |-> 151])}

SettingsOff == SettingsFresh(Null)

SettingsLatChange(text) ==
  /\ settings.edits < MaxEdits
  /\ settings' = [syncInputs(settings, handleLatChange(settings, text))
                    EXCEPT !.edits = @ + 1, !.edited = Some(text)]
  /\ UNCHANGED notSettings

SettingsLonChange(text) ==
  /\ settings.edits < MaxEdits
  /\ settings' = [syncInputs(settings, handleLonChange(settings, text))
                    EXCEPT !.edits = @ + 1, !.edited = Some(text)]
  /\ UNCHANGED notSettings

SettingsUseCurrentLocation(gpsLocation) ==
  /\ settings.edits < MaxEdits
  /\ settings' = [syncInputs(settings, handleUseCurrentLocation(settings, gpsLocation))
                    EXCEPT !.edits = @ + 1, !.edited = Null]
  /\ UNCHANGED notSettings

SettingsNext ==
  \/ \E text \in Texts : SettingsLatChange(text)
  \/ \E text \in Texts : SettingsLonChange(text)
  \/ \E gpsLocation \in GpsLocations : SettingsUseCurrentLocation(gpsLocation)

(***************************************************************************)
(* calculateOptimalAngles as a function of its arguments: latitudes of     *)
(* whole degrees from pole to pole, every mode, every algorithm of the     *)
(* CalculationAlgorithm type.                                              *)
(***************************************************************************)
Latitudes == {Deg(90), Deg(35), Deg(1), 0, Deg(-1), Deg(-33), Deg(-90)}

AllAlgorithms ==
  {"simple", "optimized", "landau", "jacobson", "pvwatts", "pvwatts-live",
   "pvwatts-winter"}

AnglesOff == Null

AnglesApply(latitude, mode, date, algorithm) ==
  /\ angleTable' = Some(anglesApply(latitude, mode, date, algorithm))
  /\ UNCHANGED notAngleTable

\* noon of the 15th of every month (getMonth() is 0-11)
MonthDates ==
  {[month |-> m - 1,
    dayOfYear |-> <<15, 46, 74, 105, 135, 166, 196, 227, 258, 288, 319, 349>>[m],
    hour |-> 12] : m \in 1..12}

TableDatesFor(mode) == IF mode = "seasonal" THEN MonthDates ELSE DatesFor(mode)

AnglesNext ==
  \E latitude \in Latitudes, mode \in Modes, algorithm \in AllAlgorithms :
    \E date \in TableDatesFor(mode) : AnglesApply(latitude, mode, date, algorithm)

(***************************************************************************)
(* One sweep of the service as a function of the latitude and of what the  *)
(* joined requests returned: the try blocks of getOptimalTiltFromPVWatts   *)
(* (lines 167-214) and getWinterPriorityTiltFromPVWatts (lines 250-307)    *)
(* after a cache miss.                                                     *)
(***************************************************************************)
SweepLatitudes == {Deg(5), Deg(40), Deg(-85), Deg(88)}

\* the outcomes of a request, with a response that has no December production
TableOutcomes(variant, latitude) ==
  [DOMAIN testAngles(variant, latitude) ->
     IF variant = "winter"
     THEN WinterOutcomes \cup {[ok |-> TRUE, ac_annual |-> 0, june |-> 1, dec |-> 0]}
     ELSE OptimalOutcomes]

SweepOff == Null

SweepDone(variant, latitude, out) ==
  /\ sweep = SweepOff
  /\ sweep' = Some([variant |-> variant, latitude |-> latitude, out |-> out,
                    requests |-> Len(testAngles(variant, latitude)),
                    result |-> sweepResult(variant, latitude, out)])
  /\ UNCHANGED notSweep

SweepNext ==
  \E variant \in Variants, latitude \in SweepLatitudes :
    \E out \in TableOutcomes(variant, latitude) : SweepDone(variant, latitude, out)

(***************************************************************************)
(* ThemeProvider (ThemeContext.tsx): the selected algorithm and the        *)
(* PVWatts Live switch.  The load effect issues its reads at mount, so     *)
(* each pending read carries the value saved then and resolves on its own; *)
(* storage is what AsyncStorage holds after the writes so far; edits       *)
(* counts the user's actions.                                              *)
(***************************************************************************)
MaxThemeEdits == 2

VALID_ALGORITHMS ==
  {"simple", "optimized", "landau", "jacobson", "pvwatts", "pvwatts-live",
   "pvwatts-winter"}

LiveAlgorithms == {"pvwatts-live", "pvwatts-winter"}

\* what the setters can have left in storage: nothing (first launch), or an
\* algorithm and / or a switch value, a live algorithm only with the switch on
SavedThemes ==
  {st \in [algorithm : {Null} \cup {Some(a) : a \in VALID_ALGORITHMS},
           live : {Null, Some("true"), Some("false")}] :
     (\E a \in st.algorithm : a \in LiveAlgorithms) => st.live = Some("true")}

\* useState initial values and the reads of the load effect (lines 113-114,
\* 134-143)
ThemeFresh(saved) ==
  [algorithm |-> "simple", pvwattsLiveEnabled |-> FALSE, storage |-> saved,
   pending |-> {[key |-> "algorithm", saved |-> saved.algorithm],
                [key |-> "live", saved |-> saved.live]},
   edits |-> 0]

ThemeOff == [ThemeFresh([algorithm |-> Null, live |-> Null]) EXCEPT !.pending = {}]

\* the then-callbacks of lines 134-143
themeLoaded(t, p) ==
  LET t1 == [t EXCEPT !.pending = @ \ {p}] IN
  IF p.key = "algorithm"
  THEN IF p.saved # Null /\ Val(p.saved) \in VALID_ALGORITHMS
       THEN [t1 EXCEPT !.algorithm = Val(p.saved)]
       ELSE t1
  ELSE IF p.saved = Some("true")
       THEN [t1 EXCEPT !.pvwattsLiveEnabled = TRUE]
       ELSE t1

setAlgorithm(t, algo) ==
  [t EXCEPT !.algorithm = algo, !.storage.algorithm = Some(algo)]

setPvwattsLiveEnabled(t, enabled) ==
  LET t1 == [t EXCEPT !.pvwattsLiveEnabled = enabled,
                      !.storage.live = Some(IF enabled THEN "true" ELSE "false")]
  IN  IF ~enabled /\ t.algorithm \in LiveAlgorithms
      THEN setAlgorithm(t1, "pvwatts")
      ELSE t1

ThemeLoaded(p) ==
  /\ p \in theme.pending
  /\ theme' = themeLoaded(theme, p)
  /\ UNCHANGED notTheme

\* the algorithm picker of PanelScreen: a live algorithm is disabled while the
\* switch is off (part_012 lines 333, 348-352)
ThemePickAlgorithm(algo) ==
  /\ theme.edits < MaxThemeEdits
  /\ ~(algo \in LiveAlgorithms /\ ~theme.pvwattsLiveEnabled)
  /\ theme' = [setAlgorithm(theme, algo) EXCEPT !.edits = @ + 1]
  /\ UNCHANGED notTheme

\* the PVWatts Live switch of SettingsScreen (lines 232-233)
ThemeSwitchLive(enabled) ==
  /\ theme.edits < MaxThemeEdits
  /\ enabled # theme.pvwattsLiveEnabled
  /\ theme' = [setPvwattsLiveEnabled(theme, enabled) EXCEPT !.edits = @ + 1]
  /\ UNCHANGED notTheme

ThemeNext ==
  \/ \E p \in theme.pending : ThemeLoaded(p)
  \/ \E algo \in VALID_ALGORITHMS : ThemePickAlgorithm(algo)
  \/ \E enabled \in BOOLEAN : ThemeSwitchLive(enabled)

(***************************************************************************)
(* Specifications: one per hook or service; the others stay idle.          *)
(***************************************************************************)
HapticOff == [HapticFresh(FALSE, 21) EXCEPT !.mounted = FALSE]

InitHaptic ==
  /\ theme = ThemeOff
  /\ sweep = SweepOff
  /\ angleTable = AnglesOff
  /\ angleOps = AngleOff
  /\ align = AlignOff
  /\ geo = GeoOff /\ settings = SettingsOff
  /\ \E en \in BOOLEAN, dev \in Deviations :
       /\ haptic = hapticEffect(HapticFresh(en, dev))
       /\ hapticObs = Observe(ObsFresh, HapticFresh(en, dev),
                              hapticEffect(HapticFresh(en, dev)), "mount")
  /\ tiltCache = <<>> /\ winterTiltCache = <<>> /\ now = 0 /\ api = ApiFresh
  /\ pvLive = PvOff /\ optAngle = OptOff /\ sensor = SensorOff

SpecHaptic == InitHaptic /\ [][HapticNext]_vars

InitPVWatts ==
  /\ theme = ThemeOff
  /\ sweep = SweepOff
  /\ angleTable = AnglesOff
  /\ angleOps = AngleOff
  /\ align = AlignOff
  /\ geo = GeoOff /\ settings = SettingsOff
  /\ haptic = HapticOff /\ hapticObs = ObsFresh
  /\ tiltCache = <<>> /\ winterTiltCache = <<>> /\ now = 0 /\ api = ApiFresh
  /\ pvLive = PvOff /\ optAngle = OptOff /\ sensor = SensorOff

SpecPVWatts == InitPVWatts /\ [][ApiNext]_vars

InitPvLive ==
  /\ theme = ThemeOff
  /\ sweep = SweepOff
  /\ angleTable = AnglesOff
  /\ angleOps = AngleOff
  /\ align = AlignOff
  /\ geo = GeoOff /\ settings = SettingsOff
  /\ haptic = HapticOff /\ hapticObs = ObsFresh
  /\ tiltCache = <<>> /\ winterTiltCache = <<>> /\ now = 0 /\ api = ApiFresh
  /\ \E l \in MaybeLocations, en \in BOOLEAN, wp \in BOOLEAN :
       pvLive = pvFetchEffect(PvFresh(l, en, wp))
  /\ optAngle = OptOff /\ sensor = SensorOff

SpecPvLive == InitPvLive /\ [][PvNext]_vars

InitOptAngle ==
  /\ theme = ThemeOff
  /\ sweep = SweepOff
  /\ angleTable = AnglesOff
  /\ angleOps = AngleOff
  /\ align = AlignOff
  /\ geo = GeoOff /\ settings = SettingsOff
  /\ haptic = HapticOff /\ hapticObs = ObsFresh
  /\ tiltCache = <<>> /\ winterTiltCache = <<>> /\ now = 0 /\ api = ApiFresh
  /\ pvLive = PvOff
  /\ \E l \in OptLocations, m \in Modes, a \in Algorithms :
       \E date \in DatesFor(m) : optAngle = optEffect(OptFresh(l, m, a), date)
  /\ sensor = SensorOff

SpecOptAngle == InitOptAngle /\ [][OptNext]_vars

InitSensor ==
  /\ theme = ThemeOff
  /\ sweep = SweepOff
  /\ angleTable = AnglesOff
  /\ angleOps = AngleOff
  /\ align = AlignOff
  /\ geo = GeoOff /\ settings = SettingsOff
  /\ haptic = HapticOff /\ hapticObs = ObsFresh
  /\ tiltCache = <<>> /\ winterTiltCache = <<>> /\ now = 0 /\ api = ApiFresh
  /\ pvLive = PvOff /\ optAngle = OptOff
  /\ sensor \in {SensorFresh(h, pf) : h \in SensorHooks, pf \in Platforms}

SpecSensor == InitSensor /\ [][SensorNext]_vars

InitLocation ==
  /\ theme = ThemeOff
  /\ sweep = SweepOff
  /\ angleTable = AnglesOff
  /\ angleOps = AngleOff
  /\ align = AlignOff
  /\ settings = SettingsOff
  /\ haptic = HapticOff /\ hapticObs = ObsFresh
  /\ tiltCache = <<>> /\ winterTiltCache = <<>> /\ now = 0 /\ api = ApiFresh
  /\ pvLive = PvOff /\ optAngle = OptOff /\ sensor = SensorOff
  /\ geo \in {GeoFresh(st) : st \in StoredLocations}

SpecLocation == InitLocation /\ [][GeoNext]_vars

InitAlignment ==
  /\ theme = ThemeOff
  /\ sweep = SweepOff
  /\ angleTable = AnglesOff
  /\ angleOps = AngleOff
  /\ geo = GeoOff /\ settings = SettingsOff
  /\ haptic = HapticOff /\ hapticObs = ObsFresh
  /\ tiltCache = <<>> /\ winterTiltCache = <<>> /\ now = 0 /\ api = ApiFresh
  /\ pvLive = PvOff /\ optAngle = OptOff /\ sensor = SensorOff
  /\ align = AlignOff

SpecAlignment == InitAlignment /\ [][AlignNext]_vars

InitAngles ==
  /\ theme = ThemeOff
  /\ sweep = SweepOff
  /\ angleTable = AnglesOff
  /\ angleOps = AngleOff
  /\ align = AlignOff
  /\ geo = GeoOff /\ settings = SettingsOff
  /\ haptic = HapticOff /\ hapticObs = ObsFresh
  /\ tiltCache = <<>> /\ winterTiltCache = <<>> /\ now = 0 /\ api = ApiFresh
  /\ pvLive = PvOff /\ optAngle = OptOff /\ sensor = SensorOff

SpecAngles == InitAngles /\ [][AngleNext]_vars

InitSettings ==
  /\ theme = ThemeOff
  /\ sweep = SweepOff
  /\ angleTable = AnglesOff
  /\ angleOps = AngleOff
  /\ align = AlignOff
  /\ geo = GeoOff
  /\ haptic = HapticOff /\ hapticObs = ObsFresh
  /\ tiltCache = <<>> /\ winterTiltCache = <<>> /\ now = 0 /\ api = ApiFresh
  /\ pvLive = PvOff /\ optAngle = OptOff /\ sensor = SensorOff
  /\ settings \in {SettingsFresh(pair) : pair \in SavedPairs}

SpecSettings == InitSettings /\ [][SettingsNext]_vars

InitOptimalAngles ==
  /\ theme = ThemeOff
  /\ sweep = SweepOff
  /\ angleTable = AnglesOff
  /\ angleOps = AngleOff
  /\ align = AlignOff
  /\ geo = GeoOff /\ settings = SettingsOff
  /\ haptic = HapticOff /\ hapticObs = ObsFresh
  /\ tiltCache = <<>> /\ winterTiltCache = <<>> /\ now = 0 /\ api = ApiFresh
  /\ pvLive = PvOff /\ optAngle = OptOff /\ sensor = SensorOff

SpecOptimalAngles == InitOptimalAngles /\ [][AnglesNext]_vars

InitSweep ==
  /\ theme = ThemeOff
  /\ sweep = SweepOff
  /\ angleTable = AnglesOff
  /\ angleOps = AngleOff
  /\ align = AlignOff
  /\ geo = GeoOff /\ settings = SettingsOff
  /\ haptic = HapticOff /\ hapticObs = ObsFresh
  /\ tiltCache = <<>> /\ winterTiltCache = <<>> /\ now = 0 /\ api = ApiFresh
  /\ pvLive = PvOff /\ optAngle = OptOff /\ sensor = SensorOff

SpecSweep == InitSweep /\ [][SweepNext]_vars

InitOptLife ==
  /\ theme = ThemeOff
  /\ sweep = SweepOff
  /\ angleTable = AnglesOff
  /\ angleOps = AngleOff
  /\ align = AlignOff
  /\ geo = GeoOff /\ settings = SettingsOff
  /\ haptic = HapticOff /\ hapticObs = ObsFresh
  /\ tiltCache = <<>> /\ winterTiltCache = <<>> /\ now = 0 /\ api = ApiFresh
  /\ pvLive = PvOff
  /\ \E l \in OptLocations, m \in Modes, a \in Algorithms :
       \E date \in DatesFor(m) : optAngle = optEffect(OptFresh(l, m, a), date)
  /\ sensor = SensorOff

SpecOptLife == InitOptLife /\ [][OptLifeNext]_vars

InitTheme ==
  /\ theme \in {ThemeFresh(saved) : saved \in SavedThemes}
  /\ sweep = SweepOff
  /\ angleTable = AnglesOff
  /\ angleOps = AngleOff
  /\ align = AlignOff
  /\ geo = GeoOff /\ settings = SettingsOff
  /\ haptic = HapticOff /\ hapticObs = ObsFresh
  /\ tiltCache = <<>> /\ winterTiltCache = <<>> /\ now = 0 /\ api = ApiFresh
  /\ pvLive = PvOff /\ optAngle = OptOff /\ sensor = SensorOff

SpecTheme == InitTheme /\ [][ThemeNext]_vars

\* C9: when every request of the sweep failed, the call returns the formula
\* fallback (0.87 x |lat|, or min(90, |lat| + 15) for winter priority) with
\* confidence fallback.
C9_FallbackOnFailure ==
  \A r \in api.last :
    r.allFailed =>
      /\ r.confidence = "fallback"
      /\ r.tilt = fallbackTilt(r.variant, r.loc.latitude)

\* C10: a sweep in which every request failed leaves both cache maps unchanged.
C10_FailedSweepLeavesCache ==
  [][(api'.inflight # api.inflight /\ api'.calls = api.calls
        /\ \A r \in api'.last : r.allFailed)
     => UNCHANGED <<tiltCache, winterTiltCache>>]_vars

TimerOfBand(h, band) ==
  \E t \in h.timers : t.intensity = band /\ t.ms = intervalMsOf(band)

\* a commit that processes a new sample right after an enabled commit
SampleStep ==
  /\ haptic.mounted /\ haptic.enabled
  /\ haptic'.mounted /\ haptic'.enabled
  /\ hapticObs'.event = "render"

\* C1: while enabled, a sample that classifies to the same periodic band as the
\* previous sample leaves the interval timer of that band running; the timer
\* stops only when the intensity changes or the hook is disabled or unmounted.
C1_TimerKeptInBand ==
  [][(/\ SampleStep
      /\ getIntensity(haptic.deviation) \in PeriodicBands
      /\ getIntensity(haptic'.deviation) = getIntensity(haptic.deviation)
      /\ TimerOfBand(haptic, getIntensity(haptic.deviation)))
     => TimerOfBand(haptic', getIntensity(haptic.deviation))]_vars

\* C2: while enabled, a sample whose intensity is a periodic band and differs
\* from the intensity of the previous sample (locked included) fires exactly one
\* immediate pulse of that band and starts the band's interval timer.
C2_PulseOnBandChange ==
  [][(/\ SampleStep
      /\ getIntensity(haptic'.deviation) \in PeriodicBands
      /\ getIntensity(haptic'.deviation) # getIntensity(haptic.deviation))
     => /\ haptic'.fired = <<getIntensity(haptic'.deviation)>>
        /\ TimerOfBand(haptic', getIntensity(haptic'.deviation))]_vars

\* C3: the number of confirmation pulses fired equals the number of times the
\* processed samples entered locked from another intensity or from the start.
C3_OneConfirmationPerLockEntry ==
  hapticObs.lockPulses = hapticObs.lockEntries

\* locked was entered, left and entered again, and the last sample stayed locked
C3_Witness ==
  /\ hapticObs.lockEntries = 2
  /\ hapticObs.prev = "locked"
  /\ hapticObs.event = "render"
  /\ haptic.fired = <<>>

\* C4: an interval timer is active only while the hook is mounted and enabled.
C4_TimerOnlyWhileEnabled ==
  haptic.timers # {} => (haptic.mounted /\ haptic.enabled)

\* a running timer was stopped by a disable or by an unmount
C4_Witness ==
  /\ hapticObs.timersBefore # {}
  /\ haptic.timers = {}
  /\ \/ hapticObs.event = "unmount"
     \/ hapticObs.event = "render" /\ ~haptic.enabled

\* C5: the tilt is null whenever the hook is disabled or has no location, and
\* once no fetch is in flight the tilt shown is the one fetched for the current
\* (location bucket, winterPriority).
C5_StaleFetchDiscarded ==
  /\ (~pvLive.enabled \/ pvLive.location = Null) => pvLive.state.tilt = Null
  /\ (pvLive.enabled /\ pvLive.location # Null /\ pvLive.inflight = {}) =>
       pvLive.tiltOf = Some(<<getCacheKey(Val(pvLive.location).latitude,
                                         Val(pvLive.location).longitude),
                              pvLive.winterPriority>>)
\* C6: while the location is null, optimalAngles is null.
C6_NullLocationNullAngles ==
  optAngle.location = Null => optAngle.state.optimalAngles = Null

StaleResponseStep(r) ==
  /\ r \in optAngle.inflight
  /\ optAngle'.inflight = optAngle.inflight \ {r}
  /\ r.seq # optAngle.issued

\* C7: the response of a request that is no longer the last one issued never
\* changes the state, and with a location set the committed target is the one
\* of the last request issued.
C7_LastRequestWins ==
  /\ [](optAngle.location # Null /\ ~optAngle.state.isCalculating
          => optAngle.committed = optAngle.issued)
  /\ [][\A r \in optAngle.inflight :
          StaleResponseStep(r) => optAngle'.state = optAngle.state]_vars

\* a superseded response has just arrived while the target of a later request
\* is on display
C7_Witness ==
  /\ optAngle.event = "stale"
  /\ optAngle.location # Null
  /\ optAngle.state.optimalAngles # Null
  /\ ~optAngle.state.isCalculating

\* C8: once the hook is unmounted, no listener it registered is still
\* subscribed with a sensor module.
C8_NoListenerAfterUnmount ==
  ~sensor.mounted => sensor.listeners = {}

\* this step is a call of the variant for loc
CalledStep(variant, loc) ==
  /\ api'.calls = api.calls + 1
  /\ \/ \E c \in api'.inflight \ api.inflight : c.variant = variant /\ c.loc = loc
     \/ /\ api'.inflight = api.inflight
        /\ \E r \in api'.last : r.variant = variant /\ r.loc = loc

C12_HeadingIsNormalizedRaw ==
  /\ sensor.state.heading = normalizeAngle(sensor.state.rawHeading)
  /\ sensor.state.heading >= 0
  /\ sensor.state.heading < SensorDeg(360)

\* C13: error is non-null only when location is null.
C13_ErrorOnlyWithoutLocation ==
  geo.state.error # Null => geo.state.location = Null

\* C14: the azimuth deviation is the circular difference current - target
\* (equal to it modulo 360) and lies in (-180, 180].
C14_AzimuthDeviationHalfOpen ==
  \A r \in align.result :
    /\ (r.azimuthDeviation - (align.currentHeading - align.targetAzimuth)) % HalfDeg(360) = 0
    /\ r.azimuthDeviation > -HalfDeg(180)
    /\ r.azimuthDeviation <= HalfDeg(180)

StatusRank(status) == CASE status = "best" -> 0 [] status = "good" -> 1 [] OTHER -> 2

\* C18: tilt is best up to 2 degrees, good up to 5, bad above; azimuth is best
\* up to 5 degrees, good up to 15, bad above; and from one result to the next a
\* larger |deviation| never has a better status.
C18_StatusMonotone ==
  /\ [](\A r \in align.result :
          /\ r.tiltStatus =
               (IF Abs(r.tiltDeviation) <= 4 THEN "best"
                ELSE IF Abs(r.tiltDeviation) <= 10 THEN "good" ELSE "bad")
          /\ r.azimuthStatus =
               (IF Abs(r.azimuthDeviation) <= 10 THEN "best"
                ELSE IF Abs(r.azimuthDeviation) <= 30 THEN "good" ELSE "bad"))
  /\ [][\A r1 \in align.result, r2 \in align'.result :
          /\ Abs(r1.tiltDeviation) < Abs(r2.tiltDeviation)
               => StatusRank(r1.tiltStatus) <= StatusRank(r2.tiltStatus)
          /\ Abs(r1.azimuthDeviation) < Abs(r2.azimuthDeviation)
               => StatusRank(r1.azimuthStatus) <= StatusRank(r2.azimuthStatus)]_vars

\* a tilt exactly 2 degrees off (best) with an azimuth exactly 15 degrees off
\* (good)
C18_Witness ==
  \E r \in align.result :
    /\ Abs(r.tiltDeviation) = 4 /\ r.tiltStatus = "best"
    /\ Abs(r.azimuthDeviation) = 30 /\ r.azimuthStatus = "good"

\* C19: tiltDeviation is currentTilt - targetTilt; each percentage is the
\* integer nearest to max(0, 100 - |deviation| / max x 100) with max = 45 for
\* tilt and 90 for azimuth, a half rounding up, and lies in 0..100.
C19_PercentageRounded ==
  \A r \in align.result :
    LET tiltExact == Max(0, 9000 - 100 * Abs(r.tiltDeviation))
        azimuthExact == Max(0, 18000 - 100 * Abs(r.azimuthDeviation))
    IN /\ r.tiltDeviation = align.currentTilt - align.targetTilt
       /\ r.tiltPercentage \in 0..100
       /\ r.azimuthPercentage \in 0..100
       /\ 2 * 90 * r.tiltPercentage - 2 * tiltExact > -90
       /\ 2 * 90 * r.tiltPercentage - 2 * tiltExact <= 90
       /\ 2 * 180 * r.azimuthPercentage - 2 * azimuthExact > -180
       /\ 2 * 180 * r.azimuthPercentage - 2 * azimuthExact <= 180

\* current 30, target 35: deviation -5, percentage 89, status good
C19_Witness ==
  /\ align.currentTilt = 60 /\ align.targetTilt = 70
  /\ \E r \in align.result :
       r.tiltDeviation = -10 /\ r.tiltPercentage = 89 /\ r.tiltStatus = "good"

IsNumberText(text) == text.prefix # Null /\ text.rest = ""

\* C16: the stored coordinates are both absent or a pair within [-90, 90] and
\* [-180, 180], and an edit whose text is empty, is not a number or is out of
\* range leaves the stored pair as it was.
C16_InvalidEntryKeepsPair ==
  /\ [](/\ (settings.manualLatitude = Null) = (settings.manualLongitude = Null)
        /\ \A lat \in settings.manualLatitude : lat >= -90 /\ lat <= 90
        /\ \A lon \in settings.manualLongitude : lon >= -180 /\ lon <= 180)
  /\ [][\A text \in settings'.edited :
          (settings'.edits = settings.edits + 1 /\ ~IsNumberText(text))
            => /\ settings'.manualLatitude = settings.manualLatitude
               /\ settings'.manualLongitude = settings.manualLongitude]_vars

\* the probe of the mounted instance reported a sensor of the hook unavailable
ProbedUnavailable ==
  /\ sensor.mounted
  /\ \E p \in sensor.probed :
       /\ p.run = sensor.current
       /\ ~p.out.rejected
       /\ p.out.available # deviceSet(sensor.hook)

\* C17: after the probe reported a sensor unavailable, isAvailable is false,
\* error is set, the instance has no listener subscribed and tilt, roll,
\* heading and rawHeading are at their initial values.
C17_UnavailableNoReadings ==
  ProbedUnavailable =>
    /\ ~sensor.state.isAvailable
    /\ sensor.state.error # Null
    /\ \A l \in sensor.listeners : l[1] # sensor.current
    /\ sensor.state.tilt = 0 /\ sensor.state.roll = 0
    /\ sensor.state.heading = 0 /\ sensor.state.rawHeading = 0

\* the compass was remounted after it had published readings, and the probe of
\* the new instance found the magnetometer missing
C17_Witness ==
  /\ ProbedUnavailable
  /\ sensor.hook = "useTiltCompensatedCompass"
  /\ sensor.samples >= 2
  /\ sensor.state.error = Some("Magnetometer")

\* the formula set of the year-round tilt, on |latitude| in 0.00001 degree
algorithmFormula(algorithm, lat) ==
  CASE algorithm = "simple" -> lat
    [] algorithm = "optimized" -> (lat * 9) \div 10
    [] algorithm = "landau" -> (lat * 76) \div 100 + 310000
    [] algorithm = "jacobson" -> getJacobsonTilt(lat)
    [] algorithm = "pvwatts" -> (lat * 87) \div 100

\* C20: the hemisphere is northern exactly for latitude >= 0, the azimuth is 0
\* north and 180 south in every mode and for every algorithm, and the
\* year-round tilt is the selected algorithm's formula on |latitude|
\* (simple: 35 -> 35, -33 -> 33, 0 -> 0, 90 -> 90).
C20_YearRoundAngles ==
  \A a \in angleTable :
    /\ a.result.hemisphere = "northern" <=> a.latitude >= 0
    /\ a.result.azimuth = (IF a.latitude >= 0 THEN 0 ELSE 180)
    /\ a.mode = "year-round" /\ a.algorithm \in DOMAIN [simple |-> 0, optimized |-> 0, landau |-> 0, jacobson |-> 0, pvwatts |-> 0]
         => a.result.tilt = algorithmFormula(a.algorithm, Abs(a.latitude))
    /\ a.mode = "year-round" /\ a.algorithm = "simple" =>
         /\ a.latitude = Deg(35) => a.result.tilt = Deg(35)
         /\ a.latitude = Deg(-33) => a.result.tilt = Deg(33)
         /\ a.latitude = 0 => a.result.tilt = 0
         /\ a.latitude = Deg(90) => a.result.tilt = Deg(90)

\* the southern scenario: latitude -33, year-round, simple
C20_Witness ==
  \E a \in angleTable :
    /\ a.latitude = Deg(-33) /\ a.mode = "year-round" /\ a.algorithm = "simple"
    /\ a.result = [tilt |-> Deg(33), azimuth |-> 180, hemisphere |-> "southern"]

\* the season of a month (0-11) north of the equator: Jun-Aug is summer
northernSeason(month) ==
  CASE month \in {2, 3, 4} -> "spring"
    [] month \in {5, 6, 7} -> "summer"
    [] month \in {8, 9, 10} -> "fall"
    [] month \in {11, 0, 1} -> "winter"

\* the season two seasons later
rotatedSeason(season) ==
  CASE season = "spring" -> "fall"
    [] season = "summer" -> "winter"
    [] season = "fall" -> "spring"
    [] season = "winter" -> "summer"

localSeason(latitude, month) ==
  IF latitude >= 0 THEN northernSeason(month) ELSE rotatedSeason(northernSeason(month))

\* the base tilt of the selected algorithm (the service algorithms have no
\* formula of their own and use the simple one)
baseTilt(algorithm, latitude) ==
  IF algorithm \in {"pvwatts-live", "pvwatts-winter"} THEN Abs(latitude)
  ELSE algorithmFormula(algorithm, Abs(latitude))

seasonalTiltAt(latitude, month, algorithm) ==
  calculateOptimalAngles([latitude |-> latitude, longitude |-> 0], "seasonal",
                         [month |-> month, dayOfYear |-> 1, hour |-> 12], algorithm).tilt

C22_NoTimerWhileLocked ==
  haptic.mounted /\ haptic.enabled /\ getIntensity(haptic.deviation) = "locked"
    => haptic.timers = {} /\ haptic.intervalRef = Null

\* a sample entered locked and a later sample, still locked, went through the
\* interval update (lastIntensityRef is set to locked only there)
C22_Witness ==
  /\ haptic.mounted /\ haptic.enabled
  /\ getIntensity(haptic.deviation) = "locked"
  /\ hapticObs.prev = "locked" /\ hapticObs.lockEntries = 1
  /\ hapticObs.event = "render" /\ hapticObs.renders >= 3
  /\ haptic.lastIntensityRef = "locked"

\* the tested angles of the winter sweep: |lat| + {0, 5, ..., 25} up to 90
winterCandidates(latitude) ==
  {a \in {Abs(latitude) + Deg(5 * k) : k \in 0..5} : a <= Deg(90)}

\* the steepest candidate whose June yield is at least its December yield (a
\* failed request counting as 0 and 0), else the shallowest candidate
steepestBalanced(latitude, out) ==
  LET angles == winterTestAngles(latitude)
      june(i) == IF out[i].ok THEN out[i].june ELSE 0
      dec(i) == IF out[i].ok THEN out[i].dec ELSE 0
      good == {angles[i] : i \in {j \in DOMAIN angles : june(j) >= dec(j)}}
      all == {angles[i] : i \in DOMAIN angles}
  IN  IF good # {} THEN CHOOSE a \in good : \A b \in good : b <= a
      ELSE CHOOSE a \in all : \A b \in all : a <= b

\* C23: a winter-priority sweep tests |lat| + {0, 5, ..., 25} up to 90 and
\* returns the steepest tested angle whose June yield >= December yield, or the
\* shallowest tested angle when no candidate satisfies that.
C23_SteepestBalancedAngle ==
  \A s \in sweep :
    s.variant = "winter" =>
      /\ {winterTestAngles(s.latitude)[i] : i \in DOMAIN winterTestAngles(s.latitude)}
           = winterCandidates(s.latitude)
      /\ s.result.tilt = steepestBalanced(s.latitude, s.out)

\* the tested angles of the optimal sweep: |lat| + {-10, -5, 0, 5, 10} in [0, 90]
optimalCandidates(latitude) ==
  {a \in {Abs(latitude) + Deg(5 * k) : k \in -2..2} : a >= 0 /\ a <= Deg(90)}

\* C24: an optimal sweep requests |lat| + {-10, -5, 0, 5, 10} restricted to
\* [0, 90] in one joined batch; a failed request scores zero and the sweep still
\* returns a live result; when some yield is positive the returned tilt is a
\* candidate of maximal yield.
C24_HighestYieldCandidate ==
  \A s \in sweep :
    s.variant = "optimal" =>
      LET angles == optimalTestAngles(s.latitude)
          yield(i) == IF s.out[i].ok THEN s.out[i].ac_annual ELSE 0
      IN  /\ {angles[i] : i \in DOMAIN angles} = optimalCandidates(s.latitude)
          /\ s.requests = Cardinality(optimalCandidates(s.latitude))
          /\ s.result.confidence = "live"
          /\ (\E i \in DOMAIN angles : yield(i) > 0) =>
               \E i \in DOMAIN angles :
                 /\ s.result.tilt = angles[i]
                 /\ \A j \in DOMAIN angles : yield(j) <= yield(i)

\* latitude 5: the candidate -5 is dropped, the request for 5 failed, and the
\* sweep returned 10, the best of the answered candidates
C24_Witness ==
  \E s \in sweep :
    /\ s.variant = "optimal" /\ s.latitude = Deg(5) /\ s.requests = 4
    /\ ~s.out[2].ok /\ s.out[3].ok /\ s.out[3].ac_annual = 2
    /\ s.result = [tilt |-> Deg(10), confidence |-> "live"]

\* the raw heading the estimate of this step is computed from, if the step is
\* an estimate (the compass needs a measurement of both sensors)
RawOfStep(data) ==
  IF sensor.hook = "useMagnetometer"
  THEN Some(normalizeAngle(data.theta - SensorDeg(90)))
  ELSE IF sensor.hook = "useTiltCompensatedCompass"
          /\ sensor'.refs.accelRef # Null /\ sensor'.refs.magRef # Null
  THEN Some(calculateTiltCompensatedHeading(Val(sensor'.refs.accelRef),
                                            Val(sensor'.refs.magRef)))
  ELSE Null

\* C25: the first estimate sets rawHeading to the raw heading; a later one
\* leaves it unchanged when the shortest delta from normalizeAngle(rawHeading)
\* to the raw heading is at most 0.3 degree and otherwise adds delta x
\* smoothingFactor, so rawHeading moves by at most 180 x smoothingFactor.
C25_ContinuousAccumulator ==
  [][\A l \in sensor.listeners : \A data \in SamplesOf(l[2]) :
       SensorSample(l, data) =>
         \A raw \in RawOfStep(data) :
           LET before == sensor.state.rawHeading
               after == sensor'.state.rawHeading
               factor == SMOOTHING_FACTOR(sensor.hook, sensor.platform)
               delta == shortestDelta(normalizeAngle(before), raw)
           IN  IF ~sensor.refs.initializedRef THEN after = raw
               ELSE /\ Abs(delta) * 10 <= SensorDeg(3) => after = before
                    /\ Abs(delta) * 10 > SensorDeg(3) =>
                         after = before + (delta * factor) \div 20
                    /\ Abs(after - before) <= (SensorDeg(180) * factor) \div 20]_vars

\* useMagnetometer: the raw heading went from 0.25 to 359.75 across the
\* boundary and rawHeading from 0.25 to 0.125
C25_Witness ==
  /\ sensor.hook = "useMagnetometer" /\ sensor.mounted
  /\ sensor.samples = 2
  /\ sensor.state.rawHeading * 8 = SensorDeg(1)

C27_TimerResumesOnEnable ==
  [][(/\ haptic.mounted /\ ~haptic.enabled
      /\ haptic'.mounted /\ haptic'.enabled
      /\ hapticObs'.event = "render"
      /\ getIntensity(haptic'.deviation) \in PeriodicBands
      /\ hapticObs.prev = getIntensity(haptic'.deviation))
     => TimerOfBand(haptic', getIntensity(haptic'.deviation))]_vars

\* the period and the pulse of each periodic band
BandFeedback ==
  [approaching |-> [ms |-> 500, style |-> "impact-light"],
   close |-> [ms |-> 250, style |-> "impact-medium"],
   very_close |-> [ms |-> 100, style |-> "impact-heavy"]]

\* C28: at most one interval timer exists, and an existing one has the period
\* and the pulse style of the last classified intensity (500 ms light for
\* approaching, 250 ms medium for close, 100 ms heavy for very_close).
C28_OneTimerOfLastIntensity ==
  /\ Cardinality(haptic.timers) <= 1
  /\ \A t \in haptic.timers :
       /\ haptic.intervalRef = Some(t.id)
       /\ t.intensity = haptic.lastIntensityRef
       /\ t.intensity \in DOMAIN BandFeedback
       /\ t.ms = BandFeedback[t.intensity].ms
       /\ hapticStyle(t.intensity) = BandFeedback[t.intensity].style

\* the timer of close replaced the timer of another band
C28_Witness ==
  /\ hapticObs.timersBefore # {}
  /\ \A t \in hapticObs.timersBefore : t.intensity # "close"
  /\ \E t \in haptic.timers : t.intensity = "close" /\ t.ms = 250
  /\ hapticObs.event = "render"

\* C29: a live algorithm is selected only while the PVWatts Live switch is on,
\* also while the saved preferences are loading, and switching it off with a
\* live algorithm selected selects pvwatts.
C29_LiveAlgorithmNeedsSwitch ==
  /\ [](theme.algorithm \in LiveAlgorithms => theme.pvwattsLiveEnabled)
  /\ [][(/\ theme'.edits = theme.edits + 1
         /\ theme.pvwattsLiveEnabled /\ ~theme'.pvwattsLiveEnabled
         /\ theme.algorithm \in LiveAlgorithms)
        => theme'.algorithm = "pvwatts"]_vars

\* C30: every location fetch attempt that ends (position obtained, permission
\* denied or acquisition failure) leaves isLoading and isRefreshing false.
C30_AttemptEndsLoading ==
  [][(\E task \in geo.tasks : \A other \in geo'.tasks : other.id # task.id)
       => (~geo'.state.isLoading /\ ~geo'.state.isRefreshing)]_vars
====
